---- MODULE Spec2Model ----
(***************************************************************************)
(* Hardware capability detection and optimization-decision engine of       *)
(* scripts/detect_hardware.py: HardwareDetector and main.                  *)
(*                                                                         *)
(* Conventions of the model                                                *)
(*   - a Python list is a sequence, a dict a record or a function;         *)
(*   - a text that the code splits or joins is a sequence of tokens        *)
(*     (str.split() output); a joined text keeps its separators as         *)
(*     elements of the sequence;                                           *)
(*   - MemoryInfo.total_gb is a float rounded to one decimal; it is held   *)
(*     in tenths of a GB (640 stands for 64.0);                            *)
(*   - Python None of an Optional[int] field is the value None (-1);       *)
(*   - pc is the position of the run inside main / detect_all.             *)
(***************************************************************************)
EXTENDS Integers, Sequences, FiniteSets, TLC

VARIABLES
    pc,            \* next step of main / detect_all
    host,          \* the facts of the machine the run reads (/proc, /sys, tools)
    installed,     \* the external tools present on the machine
    cpu_flags,     \* HardwareDetector.cpu_flags
    cpu_info,      \* HardwareDetector.cpu_info
    cpu,           \* detect_all: cpu
    virt,          \* detect_all: virt
    storage,       \* detect_all: storage
    memory,        \* detect_all: memory
    gpu,           \* detect_all: gpu
    score,         \* detect_all: score
    recommended,   \* detect_all: recommended
    improvement,   \* detect_all: improvement
    comp_flags,    \* detect_all: comp_flags
    capabilities,  \* main: capabilities
    output_file,   \* content of /tmp/vmware_hw_capabilities.json
    exit_code,     \* what main returned
    error,         \* the exception main caught
    site_packages, \* the Python packages installed on the machine
    calls,         \* calls made on a detector after its run
    files,         \* tune_system: content of the configuration files
    backups        \* tune_system: content of the backup directory

vars == <<pc, host, installed, cpu_flags, cpu_info, cpu, virt, storage, memory,
          gpu, score, recommended, improvement, comp_flags, capabilities,
          output_file, exit_code, error, site_packages, calls, files, backups>>

----------------------------------------------------------------------------
(* Bounds of the model *)

\* longest storage list handed to the scorer directly
MaxStorage == 2

\* most NVMe block devices under /sys/block of a modelled machine
MaxNvme == 2

\* the most calls made on detectors after a run
MaxCalls == 2

----------------------------------------------------------------------------
(* Python values *)

None == -1

\* truth value of an Optional[int]: None and 0 are false
Truthy(x) == x # None /\ x # 0

\* x in list
InList(x, list) == \E i \in DOMAIN list : list[i] = x

----------------------------------------------------------------------------
(* Records of the data model *)

CPUCapabilities(cores, threads, max_freq, flags) ==
    [ cores        |-> cores,
      threads      |-> threads,
      max_freq_mhz |-> max_freq,
      has_avx      |-> InList("avx", flags),
      has_avx2     |-> InList("avx2", flags),
      has_avx512f  |-> InList("avx512f", flags),
      has_aes_ni   |-> InList("aes", flags),
      has_sha_ni   |-> InList("sha_ni", flags),
      has_vmx      |-> InList("vmx", flags),
      has_svm      |-> InList("svm", flags),
      has_ept      |-> InList("ept", flags),
      has_npt      |-> InList("npt", flags),
      has_bmi1     |-> InList("bmi1", flags),
      has_bmi2     |-> InList("bmi2", flags) ]

NoCpu == CPUCapabilities(0, 0, 0, <<>>)

VirtualizationCapabilities(technology, enabled, ept, vpid, ept1gb, ept2mb, ept_ad, unrestricted, posted, vmfunc, npt, decode, flush) ==
    [ technology         |-> technology,
      enabled            |-> enabled,
      ept_supported      |-> ept,
      vpid_supported     |-> vpid,
      ept_1gb_pages      |-> ept1gb,
      ept_2mb_pages      |-> ept2mb,
      ept_ad_bits        |-> ept_ad,
      unrestricted_guest |-> unrestricted,
      posted_interrupts  |-> posted,
      vmfunc_supported   |-> vmfunc,
      npt_supported      |-> npt,
      decode_assists     |-> decode,
      flush_by_asid      |-> flush ]

NoVirt ==
    VirtualizationCapabilities("None", FALSE, FALSE, FALSE, FALSE, FALSE, FALSE, FALSE,
                               FALSE, FALSE, FALSE, FALSE, FALSE)

StorageDevice(name, type, gen, lanes, bw) ==
    [ device_name        |-> name,
      device_type        |-> type,
      pcie_generation    |-> gen,
      pcie_lanes         |-> lanes,
      max_bandwidth_mbps |-> bw ]

MemoryInfo(total, channels, hp2m, hp1g, hp2m_avail, hp1g_avail, type, speed) ==
    [ total_gb                |-> total,
      channels                |-> channels,
      hugepages_2mb_supported |-> hp2m,
      hugepages_1gb_supported |-> hp1g,
      hugepages_2mb_available |-> hp2m_avail,
      hugepages_1gb_available |-> hp1g_avail,
      type                    |-> type,
      speed_mhz               |-> speed ]

NoMemory == MemoryInfo(0, 0, FALSE, FALSE, 0, 0, "", 0)

\* vram_gb is held in MB (1/1024 GB)
GPUInfo(vendor, model, vram, gen, lanes, driver, vgpu) ==
    [ vendor          |-> vendor,
      model           |-> model,
      vram_gb         |-> vram,
      pcie_generation |-> gen,
      pcie_lanes      |-> lanes,
      driver_version  |-> driver,
      supports_vgpu   |-> vgpu ]

\* detect_gpu returned None
NoGpu == GPUInfo("None", <<>>, 0, None, None, "", FALSE)

----------------------------------------------------------------------------
(* calculate_optimization_score *)

\* CPU features (40 points max)
cpu_features_cumulative(c) ==
      (IF c.has_avx512f THEN 15 ELSE 0)
    + (IF c.has_avx2 THEN 10 ELSE 0)
    + (IF c.has_avx THEN 5 ELSE 0)
    + (IF c.has_aes_ni THEN 10 ELSE 0)
    + (IF c.has_bmi1 /\ c.has_bmi2 THEN 5 ELSE 0)
    + (IF c.cores >= 8 THEN 10 ELSE IF c.cores >= 4 THEN 5 ELSE 0)

cpu_features_bmi_either(c) ==
      (IF c.has_avx512f THEN 15 ELSE IF c.has_avx2 THEN 10
       ELSE IF c.has_avx THEN 5 ELSE 0)
    + (IF c.has_aes_ni THEN 10 ELSE 0)
    + (IF c.has_bmi1 \/ c.has_bmi2 THEN 5 ELSE 0)
    + (IF c.cores >= 8 THEN 10 ELSE IF c.cores >= 4 THEN 5 ELSE 0)

cpu_features_points(c) ==
      (IF c.has_avx512f THEN 15 ELSE IF c.has_avx2 THEN 10
       ELSE IF c.has_avx THEN 5 ELSE 0)
    + (IF c.has_aes_ni THEN 10 ELSE 0)
    + (IF c.has_bmi1 /\ c.has_bmi2 THEN 5 ELSE 0)
    + (IF c.cores >= 8 THEN 10 ELSE IF c.cores >= 4 THEN 5 ELSE 0)

\* Virtualization (30 points max)
virtualization_points(v) ==
      (IF v.enabled THEN 10 ELSE 0)
    + (IF v.ept_supported THEN 10 ELSE 0)
    + (IF v.ept_1gb_pages THEN 5 ELSE 0)
    + (IF v.vpid_supported THEN 5 ELSE 0)

nvme_count(s) == Cardinality({i \in DOMAIN s : s[i].device_type = "nvme"})

\* Storage (15 points max)
storage_points_per_device(s) == 10 * nvme_count(s)

storage_points(s) ==
    IF nvme_count(s) >= 2 THEN 15 ELSE IF nvme_count(s) = 1 THEN 10 ELSE 0

memory_points_any_hugepages(m) ==
      (IF m.total_gb >= 640 THEN 10 ELSE IF m.total_gb >= 320 THEN 5 ELSE 0)
    + (IF m.hugepages_2mb_supported \/ m.hugepages_1gb_supported THEN 5 ELSE 0)

\* Memory (15 points max); total_gb in tenths of a GB
memory_points(m) ==
      (IF m.total_gb >= 640 THEN 10 ELSE IF m.total_gb >= 320 THEN 5 ELSE 0)
    + (IF m.hugepages_1gb_supported THEN 5 ELSE 0)

\* Determine recommendation
recommendation_strict(s) ==
    IF s > 70 THEN <<"optimized", <<30, 45>>>>
    ELSE IF s > 50 THEN <<"optimized", <<20, 35>>>>
    ELSE <<"vanilla", <<10, 20>>>>

recommendation(s) ==
    IF s >= 70 THEN <<"optimized", <<30, 45>>>>
    ELSE IF s >= 50 THEN <<"optimized", <<20, 35>>>>
    ELSE <<"vanilla", <<10, 20>>>>

\* returns (score, recommended, improvement)
calculate_optimization_score(c, v, s, m) ==
    LET sc == cpu_features_points(c) + virtualization_points(v)
              + storage_points(s) + memory_points(m)
    IN  <<sc, recommendation(sc)[1], recommendation(sc)[2]>>

----------------------------------------------------------------------------
(* generate_compilation_flags *)

\* architecture_flags that asks for AVX2 before AVX-512F
architecture_flags_avx2_first(c) ==
    IF c.has_avx2
    THEN <<"-march=native", "-mtune=native", "-mavx2", "-mfma">>
    ELSE IF c.has_avx512f
    THEN <<"-march=native", "-mtune=native", "-mavx512f", "-mavx512dq", "-mfma">>
    ELSE <<"-mtune=generic">>

architecture_flags(c) ==
    IF c.has_avx512f
    THEN <<"-march=native", "-mtune=native", "-mavx512f", "-mavx512dq", "-mfma">>
    ELSE IF c.has_avx2
    THEN <<"-march=native", "-mtune=native", "-mavx2", "-mfma">>
    ELSE <<"-mtune=generic">>

feature_flags_unconditional_first(c) ==
       <<"-ffast-math", "-funroll-loops", "-fomit-frame-pointer",
         "-fno-strict-aliasing", "-fno-common">>
    \o (IF c.has_aes_ni THEN <<"-maes">> ELSE <<>>)
    \o (IF c.has_bmi2 THEN <<"-mbmi", "-mbmi2">> ELSE <<>>)
    \o (IF c.has_sha_ni THEN <<"-msha">> ELSE <<>>)
    \o (IF c.cores >= 4 THEN <<"-flto">> ELSE <<>>)

feature_flags(c) ==
       (IF c.has_aes_ni THEN <<"-maes">> ELSE <<>>)
    \o (IF c.has_bmi2 THEN <<"-mbmi", "-mbmi2">> ELSE <<>>)
    \o (IF c.has_sha_ni THEN <<"-msha">> ELSE <<>>)
    \o <<"-ffast-math", "-funroll-loops", "-fomit-frame-pointer",
         "-fno-strict-aliasing", "-fno-common">>
    \o (IF c.cores >= 4 THEN <<"-flto">> ELSE <<>>)

Bit(b) == IF b THEN "1" ELSE "0"

make_flags_optimize_avx2_only(c, v, m) ==
    [ VMWARE_OPTIMIZE  |-> Bit(c.has_avx2),
      HAS_VTX_EPT      |-> Bit(v.ept_supported),
      HAS_VPID         |-> Bit(v.vpid_supported),
      HAS_AVX512       |-> Bit(c.has_avx512f),
      HAS_AVX2         |-> Bit(c.has_avx2),
      HAS_AES_NI       |-> Bit(c.has_aes_ni),
      ENABLE_HUGEPAGES |-> Bit(m.hugepages_1gb_supported) ]

make_flags(c, v, m) ==
    [ VMWARE_OPTIMIZE  |-> Bit(c.has_avx2 \/ c.has_avx512f),
      HAS_VTX_EPT      |-> Bit(v.ept_supported),
      HAS_VPID         |-> Bit(v.vpid_supported),
      HAS_AVX512       |-> Bit(c.has_avx512f),
      HAS_AVX2         |-> Bit(c.has_avx2),
      HAS_AES_NI       |-> Bit(c.has_aes_ni),
      ENABLE_HUGEPAGES |-> Bit(m.hugepages_1gb_supported) ]

\* generate_compilation_flags with a flags dictionary that outlives the call
generate_compilation_flags_accumulating(c, v, m) ==
    [ base_optimization  |-> IF c.has_avx512f \/ c.has_avx2 THEN "-O3" ELSE "-O2",
      architecture_flags |-> architecture_flags(c),
      feature_flags      |-> comp_flags.feature_flags \o feature_flags(c),
      link_flags         |-> IF c.cores >= 4 THEN <<"-flto">> ELSE <<>>,
      make_flags         |-> make_flags(c, v, m) ]

generate_compilation_flags(c, v, m) ==
    [ base_optimization  |-> IF c.has_avx512f \/ c.has_avx2 THEN "-O3" ELSE "-O2",
      architecture_flags |-> architecture_flags(c),
      feature_flags      |-> feature_flags(c),
      link_flags         |-> IF c.cores >= 4 THEN <<"-flto">> ELSE <<>>,
      make_flags         |-> make_flags(c, v, m) ]

NoFlags == [ base_optimization |-> "", architecture_flags |-> <<>>,
             feature_flags |-> <<>>, link_flags |-> <<>>,
             make_flags |-> make_flags(NoCpu, NoVirt, NoMemory) ]

----------------------------------------------------------------------------
(* main: the report *)

\* sep.join(list): the tokens with sep between each two neighbours
RECURSIVE join(_, _)
join(sep, list) ==
    IF list = <<>> THEN <<>>
    ELSE IF Len(list) = 1 THEN <<list[1]>>
    ELSE <<list[1], sep>> \o join(sep, Tail(list))

optimized_cflags_features_first(f) ==
    join(" ", <<f.base_optimization>> \o f.feature_flags \o f.architecture_flags)

optimized_cflags(f) ==
    join(" ", <<f.base_optimization>> \o f.architecture_flags \o f.feature_flags)

optimized_ldflags(f) == join(" ", f.link_flags)

output_data(caps, f) ==
    [ capabilities      |-> caps,
      compilation_flags |-> f,
      optimized_cflags  |-> optimized_cflags(f),
      optimized_ldflags |-> optimized_ldflags(f),
      make_variables    |-> f.make_flags ]

minimal_data(e) ==
    [ error        |-> e,
      optimization |-> [ recommended_mode |-> "optimized",
                         optimization_score |-> 50 ] ]

SystemCapabilities(c, v, s, m, g, sc, rec, imp) ==
    [ cpu                |-> c,
      virtualization     |-> v,
      storage_devices    |-> s,
      memory             |-> m,
      gpu                |-> g,
      optimization_score |-> sc,
      recommended_mode   |-> rec,
      estimated_improvement_percent |-> imp ]

NoCapabilities ==
    SystemCapabilities(NoCpu, NoVirt, <<>>, NoMemory, NoGpu, 0, "", <<0, 0>>)

----------------------------------------------------------------------------
(* Texts and files *)

\* the decimal texts of the modelled machines and the numbers they denote;
\* int() and float() raise ValueError on any other text
DecimalText ==
    ( "0" :> 0 @@ "1" :> 1 @@ "2" :> 2 @@ "3" :> 3 @@ "4" :> 4 @@ "8" :> 8 @@ "16" :> 16
      @@ "800" :> 800 @@ "3600" :> 3600 @@ "4800" :> 4800
      @@ "8192" :> 8192 @@ "16384" :> 16384
      @@ "8388608" :> 8388608 @@ "33554432" :> 33554432
      @@ "33400000" :> 33400000 @@ "33530000" :> 33530000
      @@ "67108864" :> 67108864 @@ "1953525168" :> 1953525168 )

isdigit(t) == t \in DOMAIN DecimalText

\* int(t) / float(t): [raised, value]
parse_number(t) ==
    IF isdigit(t) THEN [raised |-> FALSE, value |-> DecimalText[t]]
    ELSE [raised |-> TRUE, value |-> 0]

\* the decimal text of n
str(n) == CHOOSE t \in DOMAIN DecimalText : DecimalText[t] = n

\* a file of /proc or /sys: state is "ok", "absent" or "unreadable"
File(state, text) == [state |-> state, text |-> text]

Absent == File("absent", "")

\* a line "key: value"
Line(key, value) == [key |-> key, value |-> value]

\* dict.get(key, default) of the dict built from "key: value" lines, a later
\* line replacing an earlier one with the same key
RECURSIVE dict_get(_, _, _)
dict_get(lines, key, default) ==
    IF lines = <<>> THEN default
    ELSE IF lines[Len(lines)].key = key THEN lines[Len(lines)].value
    ELSE dict_get(SubSeq(lines, 1, Len(lines) - 1), key, default)

has_key(lines, key) == \E i \in DOMAIN lines : lines[i].key = key

----------------------------------------------------------------------------
(* HardwareDetector._parse_cpuinfo *)

NoCpuInfo == [model_name |-> "", current_mhz |-> None]

\* one line of the loop body; a flags line's value is its token list, any
\* other line's value a one-token list
parse_cpuinfo_line(st, line) ==
    IF line.key = "flags" /\ st.cpu_flags = <<>>
    THEN [st EXCEPT !.cpu_flags = line.value]
    ELSE IF line.key = "model name"
    THEN [st EXCEPT !.cpu_info.model_name = line.value[1]]
    ELSE IF line.key = "cpu MHz"
    THEN IF parse_number(line.value[1]).raised
         THEN [st EXCEPT !.raised = TRUE]
         ELSE [st EXCEPT !.cpu_info.current_mhz = parse_number(line.value[1]).value]
    ELSE st

\* the loop: an exception ends it and keeps what was assigned before
RECURSIVE parse_cpuinfo_lines(_, _)
parse_cpuinfo_lines(st, lines) ==
    IF lines = <<>> \/ st.raised THEN st
    ELSE parse_cpuinfo_lines(parse_cpuinfo_line(st, Head(lines)), Tail(lines))

\* the exception is caught and reported as a warning
parse_cpuinfo(h) ==
    LET st0 == [cpu_flags |-> <<>>, cpu_info |-> NoCpuInfo, raised |-> FALSE]
    IN  IF ~h.cpuinfo_readable THEN st0
        ELSE parse_cpuinfo_lines(st0, h.cpuinfo)

----------------------------------------------------------------------------
(* install_system_packages and HardwareDetector._run_command *)

RequiredTools == {"lscpu", "dmidecode", "lspci", "numactl"}

\* the optional packages the module imports
PythonPackages == {"psutil", "distro"}

\* the packages after check_and_install_dependencies: the missing ones are
\* installed with pip; a pip that fails leaves a warning only
check_and_install_dependencies(h, pkgs) ==
    LET missing == PythonPackages \ pkgs
    IN  IF missing # {} /\ h.pip = "works" THEN pkgs \cup missing ELSE pkgs

\* the packages after the module's imports: a failed import of psutil, and
\* then of distro, calls check_and_install_dependencies
import_optional(h, pkgs) ==
    LET after_psutil == IF "psutil" \in pkgs THEN pkgs
                        ELSE check_and_install_dependencies(h, pkgs)
    IN  IF "distro" \in after_psutil THEN after_psutil
        ELSE check_and_install_dependencies(h, after_psutil)

\* [raised, installed]: which is run for every tool; the missing required
\* tools are installed through sudo with the distribution's package manager
\* (package_manager: "works", "fails", or "unknown" for an unknown distribution);
\* without the distro package the distribution is "unknown"
install_system_packages(h, inst, has_distro) ==
    LET missing == RequiredTools \ inst
    IN  IF "which" \notin inst THEN [raised |-> TRUE, installed |-> inst]
        ELSE IF missing = {} THEN [raised |-> FALSE, installed |-> inst]
        ELSE IF ~has_distro \/ h.package_manager = "unknown"
        THEN [raised |-> FALSE, installed |-> inst]
        ELSE IF "sudo" \notin inst THEN [raised |-> TRUE, installed |-> inst]
        ELSE IF h.package_manager = "works"
        THEN [raised |-> FALSE, installed |-> inst \cup missing]
        ELSE [raised |-> FALSE, installed |-> inst]

\* [raised, out]: out is the tool's output lines; a non-zero exit gives the
\* empty output, a tool that is not installed raises FileNotFoundError
run_command(h, inst, tool) ==
    IF tool \notin inst THEN [raised |-> TRUE, out |-> <<>>]
    ELSE IF h.exit_status[tool] # 0 THEN [raised |-> FALSE, out |-> <<>>]
    ELSE [raised |-> FALSE, out |-> h.stdout[tool]]

----------------------------------------------------------------------------
(* HardwareDetector.detect_cpu *)

\* the try block of the frequencies: a ValueError leaves max_freq as it is
max_freq_mhz(data, info) ==
    LET p == parse_number(dict_get(data, "CPU max MHz", ""))
    IN  IF has_key(data, "CPU max MHz") /\ p.raised THEN 0
        ELSE LET from_lscpu == IF has_key(data, "CPU max MHz") THEN p.value ELSE 0
             IN  IF from_lscpu = 0 /\ info.current_mhz # None
                 THEN info.current_mhz
                 ELSE from_lscpu

\* [raised, cpu]
detect_cpu(h, inst, flags, info) ==
    LET lscpu   == run_command(h, inst, "lscpu")
        data    == lscpu.out
        percore == parse_number(dict_get(data, "Core(s) per socket", "1"))
        sockets == parse_number(dict_get(data, "Socket(s)", "1"))
        threads == parse_number(dict_get(data, "CPU(s)", "1"))
    IN  IF lscpu.raised \/ percore.raised \/ sockets.raised \/ threads.raised
        THEN [raised |-> TRUE, cpu |-> NoCpu]
        ELSE [raised |-> FALSE,
              cpu |-> CPUCapabilities(percore.value * sockets.value, threads.value,
                                      max_freq_mhz(data, info), flags)]

----------------------------------------------------------------------------
(* HardwareDetector.detect_virtualization *)

intel_vt_x_reads_npt(c, flags) ==
    VirtualizationCapabilities("Intel VT-x", c.has_vmx, c.has_ept, InList("vpid", flags),
                               c.has_ept /\ InList("pdpe1gb", flags), c.has_ept,
                               InList("ept_ad", flags),
                               InList("unrestricted_guest", flags) \/ c.has_ept,
                               InList("posted_intr", flags), InList("vmfunc", flags),
                               c.has_npt, FALSE, FALSE)

\* the result of the vmx branch
intel_vt_x(c, flags) ==
    VirtualizationCapabilities("Intel VT-x", c.has_vmx, c.has_ept, InList("vpid", flags),
                               c.has_ept /\ InList("pdpe1gb", flags), c.has_ept,
                               InList("ept_ad", flags),
                               InList("unrestricted_guest", flags) \/ c.has_ept,
                               InList("posted_intr", flags), InList("vmfunc", flags),
                               FALSE, FALSE, FALSE)

\* an svm branch that reports the 1 GB pages of the pdpe1gb flag
amd_v_pdpe1gb(c, flags) ==
    VirtualizationCapabilities("AMD-V", c.has_svm, FALSE, FALSE,
                               InList("pdpe1gb", flags), FALSE, FALSE,
                               FALSE, FALSE, FALSE, c.has_npt,
                               InList("decode_assists", flags),
                               InList("flush_by_asid", flags))

\* the result of the svm branch
amd_v(c, flags) ==
    VirtualizationCapabilities("AMD-V", c.has_svm, FALSE, FALSE, FALSE, FALSE, FALSE,
                               FALSE, FALSE, FALSE, c.has_npt,
                               InList("decode_assists", flags),
                               InList("flush_by_asid", flags))

detect_virtualization_svm_first(c, flags) ==
    IF c.has_svm THEN amd_v(c, flags)
    ELSE IF c.has_vmx THEN intel_vt_x(c, flags)
    ELSE NoVirt

detect_virtualization(c, flags) ==
    IF c.has_vmx THEN intel_vt_x(c, flags)
    ELSE IF c.has_svm THEN amd_v(c, flags)
    ELSE NoVirt

----------------------------------------------------------------------------
(* PCIe link decoding; a sysfs text is the sequence of its characters *)

\* pat in text
contains(pat, text) ==
    \E i \in 1..(Len(text) - Len(pat) + 1) : SubSeq(text, i, i + Len(pat) - 1) = pat

GTs == <<" ", "G", "T", "/", "s">>

Digits == {"0", "1", "2", "3", "4", "5", "6", "7", "8", "9"}

DigitValue == ( "0" :> 0 @@ "1" :> 1 @@ "2" :> 2 @@ "3" :> 3 @@ "4" :> 4
                @@ "5" :> 5 @@ "6" :> 6 @@ "7" :> 7 @@ "8" :> 8 @@ "9" :> 9 )

\* int() of a run of digits
RECURSIVE digits_value(_)
digits_value(ds) ==
    IF ds = <<>> THEN 0
    ELSE 10 * digits_value(SubSeq(ds, 1, Len(ds) - 1)) + DigitValue[ds[Len(ds)]]

\* the longest run of digits of text that starts at position i
RECURSIVE digit_run(_, _)
digit_run(text, i) ==
    IF i > Len(text) \/ text[i] \notin Digits THEN <<>>
    ELSE <<text[i]>> \o digit_run(text, i + 1)

\* re.search(r'x(\d+)', width): the lane count, or None without a match
search_x_digits(text) ==
    LET hits == {i \in DOMAIN text : text[i] = "x" /\ digit_run(text, i + 1) # <<>>}
    IN  IF hits = {} THEN None
        ELSE LET first == CHOOSE i \in hits : \A j \in hits : i <= j
             IN  digits_value(digit_run(text, first + 1))

\* re.search(r'x?(\d+)', width)
search_optx_digits(text) ==
    LET hits == {i \in DOMAIN text : text[i] \in Digits}
    IN  IF hits = {} THEN None
        ELSE LET first == CHOOSE i \in hits : \A j \in hits : i <= j
             IN  digits_value(digit_run(text, first))

nvme_generation(speed) ==
    IF contains(<<"1", "6", ".", "0">> \o GTs, speed) \/ contains(<<"1", "6">> \o GTs, speed)
    THEN 4
    ELSE IF contains(<<"3", "2", ".", "0">> \o GTs, speed) \/ contains(<<"3", "2">> \o GTs, speed)
    THEN 5
    ELSE IF contains(<<"8", ".", "0">> \o GTs, speed) \/ contains(<<"8">> \o GTs, speed)
    THEN 3
    ELSE None

gpu_generation(speed) ==
    IF contains(<<"1", "6", ".", "0">> \o GTs, speed) \/ contains(<<"1", "6">> \o GTs, speed)
    THEN 4
    ELSE IF contains(<<"3", "2", ".", "0">> \o GTs, speed) \/ contains(<<"3", "2">> \o GTs, speed)
    THEN 5
    ELSE IF contains(<<"8", ".", "0">> \o GTs, speed) \/ contains(<<"8">> \o GTs, speed)
    THEN 3
    ELSE IF contains(<<"5", ".", "0">> \o GTs, speed) \/ contains(<<"5">> \o GTs, speed)
    THEN 2
    ELSE None

\* <<pcie_gen, pcie_lanes>>; any exception gives (None, None)
detect_nvme_pcie(dev) ==
    IF dev.speed.state = "unreadable" \/ dev.width.state = "unreadable"
    THEN <<None, None>>
    ELSE << IF dev.speed.state = "ok" THEN nvme_generation(dev.speed.text) ELSE None,
            IF dev.width.state = "ok" THEN search_x_digits(dev.width.text) ELSE None >>

----------------------------------------------------------------------------
(* HardwareDetector.detect_storage *)

\* bandwidths.get(pcie_gen, 0): MB/s per lane
bandwidths(gen) == IF gen = 3 THEN 985 ELSE IF gen = 4 THEN 1969
                   ELSE IF gen = 5 THEN 3938 ELSE 0

max_bandwidth(gen, lanes) ==
    IF Truthy(gen) /\ Truthy(lanes) THEN bandwidths(gen) * lanes ELSE None

\* the try block of one device: reading or converting its size may raise
device_raises(dev) == dev.size.state # "ok" \/ parse_number(dev.size.text).raised

storage_device(dev) ==
    LET link == detect_nvme_pcie(dev)
    IN  StorageDevice(dev.name, "nvme", link[1], link[2],
                      max_bandwidth(link[1], link[2]))

\* a device whose try block raises is reported and left out
RECURSIVE detect_storage(_)
detect_storage(devs) ==
    IF devs = <<>> THEN <<>>
    ELSE (IF device_raises(Head(devs)) THEN <<>> ELSE <<storage_device(Head(devs))>>)
         \o detect_storage(Tail(devs))

----------------------------------------------------------------------------
(* HardwareDetector.detect_memory *)

KbPerGb == 1048576

\* round(kb / (1024 * 1024), 1), in tenths of a GB (ties go to the even tenth)
round_gb(kb) ==
    LET q == (kb * 10) \div KbPerGb
        r == (kb * 10) % KbPerGb
    IN  IF 2 * r > KbPerGb THEN q + 1
        ELSE IF 2 * r < KbPerGb THEN q
        ELSE IF q % 2 = 0 THEN q ELSE q + 1

\* int(value) if value.isdigit() else 0, after 'kB' is removed from the value
meminfo_value(tokens) ==
    LET rest == SelectSeq(tokens, LAMBDA t : t # "kB")
    IN  IF Len(rest) = 1 /\ isdigit(rest[1]) THEN DecimalText[rest[1]] ELSE 0

\* nr_hugepages of one pool: [raised, value]
hugepages_available(pool) ==
    IF ~pool.dir \/ pool.nr.state = "absent" THEN [raised |-> FALSE, value |-> 0]
    ELSE IF pool.nr.state = "unreadable" THEN [raised |-> TRUE, value |-> 0]
    ELSE parse_number(pool.nr.text)

\* the dmidecode loop: <<mem_type, mem_speed>>; the first speed line ends it
RECURSIVE dmidecode_scan(_, _, _)
dmidecode_scan(lines, type, speed) ==
    IF lines = <<>> THEN <<type, speed>>
    ELSE LET l == Head(lines)
         IN  IF l.key = "Type" /\ l.value[1] \in {"DDR4", "DDR5"}
             THEN dmidecode_scan(Tail(lines), l.value[1], speed)
             ELSE IF l.key = "Speed" /\ InList("MHz", l.value) /\ isdigit(l.value[1])
             THEN <<type, DecimalText[l.value[1]]>>
             ELSE dmidecode_scan(Tail(lines), type, speed)

\* sudo dmidecode -t memory, every exception swallowed: sudo exits non-zero
\* when dmidecode is missing
dmidecode_output(h, inst) ==
    IF "sudo" \notin inst \/ "dmidecode" \notin inst THEN <<>>
    ELSE run_command(h, inst, "dmidecode").out

\* [raised, memory]
detect_memory(h, inst) ==
    LET total_kb == meminfo_value(dict_get(h.meminfo, "MemTotal", <<>>))
        hp2m     == hugepages_available(h.hugepages_2mb)
        hp1g     == hugepages_available(h.hugepages_1gb)
        dmi      == dmidecode_scan(dmidecode_output(h, inst), "DDR4", 3200)
    IN  IF ~h.meminfo_readable \/ hp2m.raised \/ hp1g.raised
        THEN [raised |-> TRUE, memory |-> NoMemory]
        ELSE [raised |-> FALSE,
              memory |-> MemoryInfo(round_gb(total_kb),
                                    IF total_kb >= 32 * KbPerGb THEN 4 ELSE 2,
                                    h.hugepages_2mb.dir, h.hugepages_1gb.dir,
                                    hp2m.value, hp1g.value, dmi[1], dmi[2])]

----------------------------------------------------------------------------
(* HardwareDetector.detect_gpu and _detect_gpu_pcie *)

\* one card of /sys/class/drm: <<pcie_gen, pcie_lanes>>
card_link(card) ==
    << IF card.speed.state = "ok" THEN gpu_generation(card.speed.text) ELSE None,
       IF card.width.state = "ok" THEN search_optx_digits(card.width.text) ELSE None >>

card_raises(card) ==
    card.device_file /\ (card.speed.state = "unreadable" \/ card.width.state = "unreadable")

\* the first card with a decoded generation or lane count; an exception on
\* the way gives (None, None)
RECURSIVE detect_gpu_pcie(_)
detect_gpu_pcie(cards) ==
    IF cards = <<>> THEN <<None, None>>
    ELSE LET card == Head(cards)
         IN  IF ~card.device_file THEN detect_gpu_pcie(Tail(cards))
             ELSE IF card_raises(card) THEN <<None, None>>
             ELSE IF Truthy(card_link(card)[1]) \/ Truthy(card_link(card)[2])
             THEN card_link(card)
             ELSE detect_gpu_pcie(Tail(cards))

\* the default VRAM of an AMD model, used when rocm-smi cannot be run
amd_vram_estimate(model) ==
    IF contains(<<"RX", "7900">>, model)
    THEN (IF InList("XTX", model) THEN 20 * 1024 ELSE 16 * 1024)
    ELSE IF contains(<<"RX", "7800">>, model) \/ contains(<<"RX", "7700">>, model)
    THEN 16 * 1024
    ELSE IF contains(<<"RX", "7600">>, model) THEN 8 * 1024
    ELSE IF contains(<<"RX", "6900">>, model) \/ contains(<<"RX", "6800">>, model)
    THEN 16 * 1024
    ELSE IF contains(<<"RX", "6700">>, model) THEN 12 * 1024
    ELSE 8 * 1024

\* the number in front of the unit of a "<n> <unit>" value, 0 without one
leading_number(tokens) ==
    IF tokens # <<>> /\ isdigit(tokens[1]) THEN DecimalText[tokens[1]] ELSE 0

\* the NVIDIA branch: [found, gpu]; an exception of nvidia-smi is swallowed
detect_nvidia(h, inst) ==
    LET smi == run_command(h, inst, "nvidia-smi")
        link == detect_gpu_pcie(h.drm)
    IN  IF smi.raised \/ smi.out = <<>> \/ Len(smi.out[1].value) < 3
        THEN [found |-> FALSE, gpu |-> NoGpu]
        ELSE [found |-> TRUE,
              gpu |-> GPUInfo("NVIDIA", <<smi.out[1].value[1]>>,
                              leading_number(<<smi.out[1].value[2]>>),
                              IF Truthy(link[1]) THEN link[1] ELSE 4,
                              IF Truthy(link[2]) THEN link[2] ELSE 16,
                              smi.out[1].value[3], TRUE)]

\* the lines of lspci -v that name an AMD display device
amd_display_lines(out) ==
    SelectSeq(out, LAMBDA l : l.key \in {"VGA", "Display"} /\ InList("AMD", l.value))

\* the AMD branch; every exception ends it with None
detect_amd(h, inst) ==
    LET lspci   == run_command(h, inst, "lspci")
        hits    == amd_display_lines(lspci.out)
        model   == Tail(hits[1].value)
        rocm    == run_command(h, inst, "rocm-smi")
        vram    == IF rocm.raised THEN amd_vram_estimate(model)
                   ELSE IF rocm.out = <<>> THEN 0
                   ELSE IF InList("MB", rocm.out[1].value)
                   THEN leading_number(rocm.out[1].value) ELSE 0
        modinfo == run_command(h, inst, "modinfo")
        versions == SelectSeq(modinfo.out, LAMBDA l : l.key = "version")
        driver  == IF modinfo.raised \/ versions = <<>> THEN "Unknown"
                   ELSE versions[1].value
        link    == detect_gpu_pcie(h.drm)
        which   == run_command(h, inst, "which")
    IN  IF lspci.raised \/ hits = <<>> \/ (~h.opt_rocm /\ which.raised) THEN NoGpu
        ELSE GPUInfo("AMD", model, vram,
                     IF Truthy(link[1]) THEN link[1] ELSE 4,
                     IF Truthy(link[2]) THEN link[2] ELSE 16,
                     driver, h.opt_rocm \/ "rocm-smi" \in inst)

detect_gpu(h, inst) ==
    IF detect_nvidia(h, inst).found THEN detect_nvidia(h, inst).gpu
    ELSE detect_amd(h, inst)

----------------------------------------------------------------------------
(* External tools that never return: subprocess.run is given no timeout *)

\* the tool is started and does not return
hang(h, inst, tool) == tool \in inst /\ tool \in h.hangs

\* install_system_packages waits for ever: for which, or for the installation
install_system_packages_blocks(h, inst, has_distro) ==
    \/ hang(h, inst, "which")
    \/ /\ "which" \in inst
       /\ RequiredTools \ inst # {}
       /\ has_distro /\ h.package_manager # "unknown"
       /\ hang(h, inst, "sudo")

\* detect_memory waits for ever for sudo dmidecode
detect_memory_blocks(h, inst) ==
    /\ ~detect_memory(h, inst).raised
    /\ "sudo" \in inst
    /\ (hang(h, inst, "sudo") \/ hang(h, inst, "dmidecode"))

\* detect_gpu waits for ever for one of the tools it comes to run
detect_gpu_blocks(h, inst) ==
    LET lspci == run_command(h, inst, "lspci")
    IN  \/ hang(h, inst, "nvidia-smi")
        \/ /\ ~detect_nvidia(h, inst).found
           /\ \/ hang(h, inst, "lspci")
              \/ /\ ~lspci.raised
                 /\ amd_display_lines(lspci.out) # <<>>
                 /\ \/ hang(h, inst, "rocm-smi")
                    \/ hang(h, inst, "modinfo")
                    \/ (~h.opt_rocm /\ hang(h, inst, "which"))

----------------------------------------------------------------------------
(* The modelled machines *)

Tools == {"which", "sudo", "lscpu", "dmidecode", "lspci", "numactl",
          "nvidia-smi", "rocm-smi", "modinfo"}

\* the tools the detector invokes
InvokedTools == {"which", "lscpu", "dmidecode", "nvidia-smi", "lspci",
                 "rocm-smi", "modinfo"}

\* the CPU flag tokens the detector looks at, in /proc/cpuinfo order
TokenOrder == <<"vmx", "svm", "avx", "avx2", "avx512f", "aes", "sha_ni",
                "bmi1", "bmi2", "ept", "npt", "vpid", "pdpe1gb">>

AllTokens == {TokenOrder[i] : i \in DOMAIN TokenOrder}

\* the flags line that reports the tokens of S
FlagLine(S) == SelectSeq(TokenOrder, LAMBDA t : t \in S)

\* the flags lines of the machines of a whole run
RunFlagLines ==
    { FlagLine({}),
      FlagLine({"avx", "aes", "bmi1"}),
      FlagLine({"svm", "npt", "avx", "avx2", "aes", "bmi1", "bmi2"}),
      FlagLine({"vmx", "ept", "avx", "avx2", "bmi2"}),
      FlagLine({"vmx", "svm", "ept", "npt", "vpid", "avx", "aes"}),
      FlagLine(AllTokens) }

Speed8 == <<"8", ".", "0", " ", "G", "T", "/", "s", " ", "P", "C", "I", "e">>
Speed16 == <<"1", "6", ".", "0", " ", "G", "T", "/", "s", " ", "P", "C", "I", "e">>

NvmeDir(i) ==
    [ name  |-> IF i = 1 THEN "nvme0n1" ELSE IF i = 2 THEN "nvme1n1"
                ELSE IF i = 3 THEN "nvme2n1" ELSE "nvme3n1",
      size  |-> File("ok", "1953525168"),
      speed |-> File("ok", IF i % 2 = 1 THEN Speed16 ELSE Speed8),
      width |-> File("ok", <<"x", "4">>) ]

CpuEntry(flags) ==
    << Line("model name", <<"cpu">>), Line("cpu MHz", <<"800">>), Line("flags", flags) >>

\* the parameters of a well-formed machine
Bases ==
    [ flags  : RunFlagLines,
      cores  : {"2", "8"},
      memkb  : {"8388608", "67108864"},
      hp1g   : BOOLEAN,
      nvme   : 0..MaxNvme,
      gpu    : {"none", "nvidia", "amd"} ]

ToolOutput(b, tool) ==
    CASE tool = "lscpu" ->
            << Line("CPU(s)", "16"), Line("Core(s) per socket", b.cores),
               Line("Socket(s)", "1"), Line("CPU max MHz", "3600") >>
      [] tool = "modinfo" -> << Line("version", "6.1") >>
      [] tool = "dmidecode" ->
            << Line("Type", <<"DDR5">>), Line("Speed", <<"4800", "MHz">>) >>
      [] tool = "nvidia-smi" ->
            IF b.gpu = "nvidia" THEN << Line("gpu", <<"RTX", "8192", "535">>) >> ELSE <<>>
      [] tool = "lspci" ->
            IF b.gpu = "amd" THEN << Line("VGA", <<"AMD", "Radeon", "RX", "7900", "XTX">>) >>
            ELSE IF b.gpu = "nvidia" THEN << Line("VGA", <<"NVIDIA", "RTX">>) >>
            ELSE <<>>
      [] tool = "rocm-smi" -> << Line("vram", <<"16384", "MB">>) >>
      [] OTHER -> <<>>

\* the tools of a well-formed machine: the vendor tools come with the GPU
BaseTools(b) ==
    (Tools \ {"nvidia-smi", "rocm-smi"})
    \cup (IF b.gpu = "nvidia" THEN {"nvidia-smi"} ELSE {})
    \cup (IF b.gpu = "amd" THEN {"rocm-smi"} ELSE {})

RECURSIVE NvmeDirs(_)
NvmeDirs(n) == IF n = 0 THEN <<>> ELSE Append(NvmeDirs(n - 1), NvmeDir(n))

NoFault == [kind |-> "none", what |-> ""]

WellFormed(b) ==
    [ base             |-> b,
      fault            |-> NoFault,
      cpuinfo_readable |-> TRUE,
      cpuinfo          |-> CpuEntry(b.flags) \o CpuEntry(b.flags),
      exit_status      |-> [t \in Tools |-> 0],
      stdout           |-> [t \in Tools |-> ToolOutput(b, t)],
      package_manager  |-> "works",
      meminfo_readable |-> TRUE,
      meminfo          |-> << Line("MemTotal", <<b.memkb, "kB">>) >>,
      hugepages_2mb    |-> [dir |-> TRUE, nr |-> File("ok", "0")],
      hugepages_1gb    |-> [dir |-> b.hp1g,
                            nr  |-> IF b.hp1g THEN File("ok", "4") ELSE Absent],
      nvme             |-> NvmeDirs(b.nvme),
      drm              |-> IF b.gpu = "none" THEN <<>>
                           ELSE << [device_file |-> TRUE,
                                    speed |-> File("ok", Speed16),
                                    width |-> File("ok", <<"1", "6">>)] >>,
      opt_rocm         |-> FALSE,
      python_packages  |-> PythonPackages,
      pip              |-> "works",
      hangs            |-> {} ]

\* one fact source absent, unreadable or malformed
FactFaults ==
    { "cpuinfo_unreadable", "cpu_mhz_malformed", "cpu_mhz_absent",
      "lscpu_cores_absent", "lscpu_cores_malformed", "lscpu_cpus_malformed",
      "meminfo_unreadable", "memtotal_malformed",
      "nr_hugepages_absent", "nr_hugepages_malformed", "nr_hugepages_unreadable",
      "nvme_size_malformed", "nvme_speed_absent", "nvme_speed_unreadable" }

\* no fault, one fact fault, one tool that exits non-zero or is missing, or
\* one Python package that is missing; a missing tool cannot be installed
\* ("missing") or can ("installable"), a missing package can ("no_package")
\* or cannot ("no_package_no_pip")
Faults ==
    {NoFault}
    \cup [kind : {"fact"}, what : FactFaults]
    \cup [kind : {"nonzero", "missing"}, what : InvokedTools]
    \cup [kind : {"installable"}, what : InvokedTools \cap RequiredTools]
    \cup [kind : {"no_package", "no_package_no_pip"}, what : PythonPackages]

without_key(lines, key) == SelectSeq(lines, LAMBDA l : l.key # key)

with_value(lines, key, value) ==
    [i \in DOMAIN lines |-> IF lines[i].key = key THEN Line(key, value) ELSE lines[i]]

\* the machine h with the fact source f damaged
damage(h, f) ==
    CASE f = "cpuinfo_unreadable" -> [h EXCEPT !.cpuinfo_readable = FALSE]
      [] f = "cpu_mhz_malformed" ->
            [h EXCEPT !.cpuinfo = with_value(@, "cpu MHz", <<"n/a">>)]
      [] f = "cpu_mhz_absent" -> [h EXCEPT !.cpuinfo = without_key(@, "cpu MHz")]
      [] f = "lscpu_cores_absent" ->
            [h EXCEPT !.stdout["lscpu"] = without_key(@, "Core(s) per socket")]
      [] f = "lscpu_cores_malformed" ->
            [h EXCEPT !.stdout["lscpu"] = with_value(@, "Core(s) per socket", "-")]
      [] f = "lscpu_cpus_malformed" ->
            [h EXCEPT !.stdout["lscpu"] = with_value(@, "CPU(s)", "-")]
      [] f = "meminfo_unreadable" -> [h EXCEPT !.meminfo_readable = FALSE]
      [] f = "memtotal_malformed" ->
            [h EXCEPT !.meminfo = with_value(@, "MemTotal", <<"unknown">>)]
      [] f = "nr_hugepages_absent" -> [h EXCEPT !.hugepages_2mb.nr = Absent]
      [] f = "nr_hugepages_malformed" -> [h EXCEPT !.hugepages_2mb.nr = File("ok", "")]
      [] f = "nr_hugepages_unreadable" ->
            [h EXCEPT !.hugepages_2mb.nr = File("unreadable", "")]
      [] f = "nvme_size_malformed" ->
            IF h.nvme = <<>> THEN h ELSE [h EXCEPT !.nvme[1].size = File("ok", "")]
      [] f = "nvme_speed_absent" ->
            IF h.nvme = <<>> THEN h ELSE [h EXCEPT !.nvme[1].speed = File("absent", <<>>)]
      [] f = "nvme_speed_unreadable" ->
            IF h.nvme = <<>> THEN h
            ELSE [h EXCEPT !.nvme[1].speed = File("unreadable", <<>>)]

\* the machine of base b with fault f
Machine(b, f) ==
    LET h == [WellFormed(b) EXCEPT !.fault = f]
    IN  CASE f.kind = "none" -> h
          [] f.kind = "fact" -> damage(h, f.what)
          [] f.kind = "nonzero" ->
                [h EXCEPT !.exit_status[f.what] = 1]
          [] f.kind = "missing" -> [h EXCEPT !.package_manager = "fails"]
          [] f.kind = "installable" -> h
          [] f.kind = "no_package" ->
                [h EXCEPT !.python_packages = PythonPackages \ {f.what}]
          [] f.kind = "no_package_no_pip" ->
                [h EXCEPT !.python_packages = PythonPackages \ {f.what},
                          !.pip = "fails"]

\* the tools of the machine of base b with fault f
MachineTools(b, f) ==
    IF f.kind \in {"missing", "installable"} THEN BaseTools(b) \ {f.what}
    ELSE BaseTools(b)

----------------------------------------------------------------------------
(* The run of main, step by step *)

NoFile == [exists |-> FALSE]

\* no configuration file is part of the run
NoFiles == <<>>

\* nothing detected yet
Blank ==
    /\ cpu_flags = <<>>
    /\ cpu_info = NoCpuInfo
    /\ cpu = NoCpu
    /\ virt = NoVirt
    /\ storage = <<>>
    /\ memory = NoMemory
    /\ gpu = NoGpu
    /\ score = 0
    /\ recommended = ""
    /\ improvement = <<0, 0>>
    /\ comp_flags = NoFlags
    /\ capabilities = NoCapabilities
    /\ output_file = NoFile
    /\ exit_code = None
    /\ error = ""
    /\ site_packages = host.python_packages
    /\ calls = <<>>
    /\ files = NoFiles
    /\ backups = NoFiles

\* the script is started on some machine
Init ==
    /\ pc = "import"
    /\ \E b \in Bases, f \in Faults :
          /\ host = Machine(b, f)
          /\ installed = MachineTools(b, f)
    /\ Blank

\* the module is loaded: the optional imports, with their installation
Import ==
    /\ pc = "import"
    /\ site_packages' = import_optional(host, site_packages)
    /\ pc' = "main"
    /\ UNCHANGED <<host, installed, cpu_flags, cpu_info, cpu, virt, storage, memory,
                   gpu, score, recommended, improvement, comp_flags, capabilities,
                   output_file, exit_code, error, calls, files, backups>>

\* detector = HardwareDetector(): _parse_cpuinfo, then install_system_packages
Construct ==
    /\ pc = "main"
    /\ ~install_system_packages_blocks(host, installed, "distro" \in site_packages)
    /\ LET parsed == parse_cpuinfo(host)
           inst   == install_system_packages(host, installed,
                                             "distro" \in site_packages)
       IN  /\ cpu_flags' = parsed.cpu_flags
           /\ cpu_info' = parsed.cpu_info
           /\ installed' = inst.installed
           /\ pc' = IF inst.raised THEN "except" ELSE "detect_cpu"
           /\ error' = IF inst.raised THEN "install_system_packages" ELSE error
    /\ UNCHANGED <<host, cpu, virt, storage, memory, gpu, score, recommended,
                   improvement, comp_flags, capabilities, output_file, exit_code,
                   site_packages, calls, files, backups>>

\* cpu = self.detect_cpu()
DetectCpu ==
    /\ pc = "detect_cpu"
    /\ ~hang(host, installed, "lscpu")
    /\ LET r == detect_cpu(host, installed, cpu_flags, cpu_info)
       IN  /\ cpu' = r.cpu
           /\ pc' = IF r.raised THEN "except" ELSE "detect_virtualization"
           /\ error' = IF r.raised THEN "detect_cpu" ELSE error
    /\ UNCHANGED <<host, installed, cpu_flags, cpu_info, virt, storage, memory, gpu,
                   score, recommended, improvement, comp_flags, capabilities,
                   output_file, exit_code,
                   site_packages, calls, files, backups>>

\* virt = self.detect_virtualization(cpu)
DetectVirtualization ==
    /\ pc = "detect_virtualization"
    /\ virt' = detect_virtualization(cpu, cpu_flags)
    /\ pc' = "detect_storage"
    /\ UNCHANGED <<host, installed, cpu_flags, cpu_info, cpu, storage, memory, gpu,
                   score, recommended, improvement, comp_flags, capabilities,
                   output_file, exit_code, error,
                   site_packages, calls, files, backups>>

\* storage = self.detect_storage()
DetectStorage ==
    /\ pc = "detect_storage"
    /\ storage' = detect_storage(host.nvme)
    /\ pc' = "detect_memory"
    /\ UNCHANGED <<host, installed, cpu_flags, cpu_info, cpu, virt, memory, gpu,
                   score, recommended, improvement, comp_flags, capabilities,
                   output_file, exit_code, error,
                   site_packages, calls, files, backups>>

\* memory = self.detect_memory()
DetectMemory ==
    /\ pc = "detect_memory"
    /\ ~detect_memory_blocks(host, installed)
    /\ LET r == detect_memory(host, installed)
       IN  /\ memory' = r.memory
           /\ pc' = IF r.raised THEN "except" ELSE "detect_gpu"
           /\ error' = IF r.raised THEN "detect_memory" ELSE error
    /\ UNCHANGED <<host, installed, cpu_flags, cpu_info, cpu, virt, storage, gpu,
                   score, recommended, improvement, comp_flags, capabilities,
                   output_file, exit_code,
                   site_packages, calls, files, backups>>

\* gpu = self.detect_gpu()
DetectGpu ==
    /\ pc = "detect_gpu"
    /\ ~detect_gpu_blocks(host, installed)
    /\ gpu' = detect_gpu(host, installed)
    /\ pc' = "score"
    /\ UNCHANGED <<host, installed, cpu_flags, cpu_info, cpu, virt, storage, memory,
                   score, recommended, improvement, comp_flags, capabilities,
                   output_file, exit_code, error,
                   site_packages, calls, files, backups>>

\* the end of detect_all: the score, the compilation flags and the
\* SystemCapabilities that is returned with them
ScoreAndPlan ==
    /\ pc = "score"
    /\ LET r == calculate_optimization_score(cpu, virt, storage, memory)
       IN  /\ score' = r[1]
           /\ recommended' = r[2]
           /\ improvement' = r[3]
           /\ capabilities' = SystemCapabilities(cpu, virt, storage, memory, gpu,
                                                 r[1], r[2], r[3])
    /\ comp_flags' = generate_compilation_flags(cpu, virt, memory)
    /\ pc' = "report"
    /\ UNCHANGED <<host, installed, cpu_flags, cpu_info, cpu, virt, storage, memory,
                   gpu, output_file, exit_code, error,
                   site_packages, calls, files, backups>>

\* main: output_data is built and written; return 0
WriteReport ==
    /\ pc = "report"
    /\ output_file' = output_data(capabilities, comp_flags)
    /\ exit_code' = 0
    /\ pc' = "done"
    /\ UNCHANGED <<host, installed, cpu_flags, cpu_info, cpu, virt, storage, memory,
                   gpu, score, recommended, improvement, comp_flags, capabilities,
                   error,
                   site_packages, calls, files, backups>>

\* main: except Exception: the minimal report is written; return 1
Fallback ==
    /\ pc = "except"
    /\ output_file' = minimal_data(error)
    /\ exit_code' = 1
    /\ pc' = "done"
    /\ UNCHANGED <<host, installed, cpu_flags, cpu_info, cpu, virt, storage, memory,
                   gpu, score, recommended, improvement, comp_flags, capabilities,
                   error,
                   site_packages, calls, files, backups>>

Next ==
    \/ Import
    \/ Construct
    \/ DetectCpu
    \/ DetectVirtualization
    \/ DetectStorage
    \/ DetectMemory
    \/ DetectGpu
    \/ ScoreAndPlan
    \/ WriteReport
    \/ Fallback

Spec == Init /\ [][Next]_vars

----------------------------------------------------------------------------
(* The run of main on well-formed machines with any CPU flag set *)

FlagBases ==
    [ flags  : {FlagLine(S) : S \in SUBSET AllTokens},
      cores  : {"2", "8"},
      memkb  : {"67108864"},
      hp1g   : {TRUE},
      nvme   : {MaxNvme},
      gpu    : {"none"} ]

FlagsInit ==
    /\ pc = "import"
    /\ \E b \in FlagBases :
          /\ host = WellFormed(b)
          /\ installed = BaseTools(b)
    /\ Blank

FlagsNext ==
    \/ Import
    \/ Construct
    \/ DetectCpu
    \/ DetectVirtualization
    \/ DetectStorage
    \/ DetectMemory
    \/ DetectGpu
    \/ ScoreAndPlan
    \/ WriteReport

FlagsSpec == FlagsInit /\ [][FlagsNext]_vars

----------------------------------------------------------------------------
(* The run on machines that differ in the virtualization flags *)

VirtTokenOrder ==
    <<"vmx", "svm", "ept", "npt", "vpid", "pdpe1gb", "ept_ad", "unrestricted_guest",
      "posted_intr", "vmfunc", "decode_assists", "flush_by_asid">>

VirtTokens == {VirtTokenOrder[i] : i \in DOMAIN VirtTokenOrder}

VirtFlagLine(S) == SelectSeq(VirtTokenOrder, LAMBDA t : t \in S)

VirtBases ==
    [ flags  : {VirtFlagLine(S) : S \in SUBSET VirtTokens},
      cores  : {"8"},
      memkb  : {"8388608"},
      hp1g   : {FALSE},
      nvme   : {0},
      gpu    : {"none"} ]

VirtInit ==
    /\ pc = "import"
    /\ \E b \in VirtBases :
          /\ host = WellFormed(b)
          /\ installed = BaseTools(b)
    /\ Blank

VirtSpec == VirtInit /\ [][FlagsNext]_vars

----------------------------------------------------------------------------
(* The run on machines that differ in the link attributes of the NVMe devices *)

Speed32 == <<"3", "2", ".", "0", " ", "G", "T", "/", "s", " ", "P", "C", "I", "e">>
Speed5 == <<"5", ".", "0", " ", "G", "T", "/", "s", " ", "P", "C", "I", "e">>
Speed2_5 == <<"2", ".", "5", " ", "G", "T", "/", "s", " ", "P", "C", "I", "e">>
SpeedUnknown == <<"U", "n", "k", "n", "o", "w", "n">>

\* current_link_speed: missing, unreadable, or one of the texts
LinkSpeeds ==
    {File("absent", <<>>), File("unreadable", <<>>)}
    \cup {File("ok", t) : t \in {Speed8, Speed16, Speed32, Speed5, Speed2_5, SpeedUnknown}}

\* current_link_width: missing, unreadable, or one of the texts
LinkWidths ==
    {File("absent", <<>>), File("unreadable", <<>>)}
    \cup {File("ok", t) : t \in {<<"x", "0">>, <<"x", "1">>, <<"x", "4">>,
                                  <<"x", "1", "6">>, <<"4">>, <<>>}}

LinkDirs(i) ==
    { [NvmeDir(i) EXCEPT !.speed = s, !.width = w] : s \in LinkSpeeds, w \in LinkWidths }

\* one or two NVMe devices
LinkDevices ==
    {<<d>> : d \in LinkDirs(1)} \cup {<<d, e>> : d \in LinkDirs(1), e \in LinkDirs(2)}

LinkBase ==
    [ flags |-> <<>>, cores |-> "8", memkb |-> "8388608", hp1g |-> FALSE, nvme |-> 0,
      gpu |-> "none" ]

LinkInit ==
    /\ pc = "import"
    /\ \E devs \in LinkDevices : host = [WellFormed(LinkBase) EXCEPT !.nvme = devs]
    /\ installed = BaseTools(LinkBase)
    /\ Blank

LinkSpec == LinkInit /\ [][FlagsNext]_vars

----------------------------------------------------------------------------
(* The run on machines whose CPU entries report different flags *)

EntryFlagLines == {FlagLine(S) : S \in SUBSET {"vmx", "ept", "avx2", "aes"}}

\* /proc/cpuinfo with two CPU entries
EntryInit ==
    /\ pc = "import"
    /\ \E first \in EntryFlagLines, later \in EntryFlagLines :
          host = [WellFormed(LinkBase) EXCEPT !.cpuinfo = CpuEntry(first) \o CpuEntry(later)]
    /\ installed = BaseTools(LinkBase)
    /\ Blank

EntrySpec == EntryInit /\ [][FlagsNext]_vars

----------------------------------------------------------------------------
(* The run on machines that differ in MemTotal *)

\* MemTotal in kB: 8 GB, 31.85 GB, 31.98 GB, 32 GB, 64 GB
MemTotals == {"8388608", "33400000", "33530000", "33554432", "67108864"}

MemBases ==
    [ flags  : RunFlagLines,
      cores  : {"8"},
      memkb  : MemTotals,
      hp1g   : BOOLEAN,
      nvme   : {0, 1},
      gpu    : {"none"} ]

MemInit ==
    /\ pc = "import"
    /\ \E b \in MemBases :
          /\ host = WellFormed(b)
          /\ installed = BaseTools(b)
    /\ Blank

MemSpec == MemInit /\ [][FlagsNext]_vars

----------------------------------------------------------------------------
(* The run started by the wizard on machines with one tool that never returns *)

\* the step of the run waits for a tool that does not return
Blocks ==
    \/ pc = "main" /\ install_system_packages_blocks(host, installed,
                                                      "distro" \in site_packages)
    \/ pc = "detect_cpu" /\ hang(host, installed, "lscpu")
    \/ pc = "detect_memory" /\ detect_memory_blocks(host, installed)
    \/ pc = "detect_gpu" /\ detect_gpu_blocks(host, installed)

\* subprocess.run without a timeout: the step does not come back
Block ==
    /\ Blocks
    /\ pc' = "blocked"
    /\ UNCHANGED <<host, installed, cpu_flags, cpu_info, cpu, virt, storage, memory,
                   gpu, score, recommended, improvement, comp_flags, capabilities,
                   output_file, exit_code, error, site_packages, calls, files,
                   backups>>

\* run_hardware_detection: after 30 seconds the script is killed and the
\* wizard goes on without a report
WizardTimeout ==
    /\ pc = "blocked"
    /\ pc' = "killed"
    /\ UNCHANGED <<host, installed, cpu_flags, cpu_info, cpu, virt, storage, memory,
                   gpu, score, recommended, improvement, comp_flags, capabilities,
                   output_file, exit_code, error, site_packages, calls, files,
                   backups>>

HangBases ==
    [ flags  : RunFlagLines,
      cores  : {"8"},
      memkb  : {"67108864"},
      hp1g   : {TRUE},
      nvme   : {1},
      gpu    : {"none", "nvidia", "amd"} ]

\* one of the tools of a probe never returns
HangInit ==
    /\ pc = "import"
    /\ \E b \in HangBases, t \in InvokedTools \cup {"sudo"} :
          /\ host = [WellFormed(b) EXCEPT !.hangs = {t}]
          /\ installed = BaseTools(b)
    /\ Blank

HangNext ==
    \/ FlagsNext
    \/ Block
    \/ WizardTimeout

\* the script and the wizard keep running while they can
HangSpec == HangInit /\ [][HangNext]_vars /\ WF_vars(HangNext)

----------------------------------------------------------------------------
(* Calls made on a detector after the run, and on fresh detectors *)

\* HardwareDetector(): the flags a fresh detector parses, the tools after its
\* install_system_packages
fresh_detector(h, inst, pkgs) ==
    [ cpu_flags |-> parse_cpuinfo(h).cpu_flags,
      installed |-> install_system_packages(h, inst, "distro" \in pkgs).installed ]

Call(op, fresh, result) == [op |-> op, fresh |-> fresh, result |-> result]

\* the run is over with a full report and a further call may be made
MayCall == pc = "done" /\ exit_code = 0 /\ Len(calls) < MaxCalls

\* detect_virtualization(cpu) on the detector of the run or on a fresh one
CallDetectVirtualization ==
    /\ MayCall
    /\ \E fresh \in BOOLEAN :
          LET d == fresh_detector(host, installed, site_packages)
              flags == IF fresh THEN d.cpu_flags ELSE cpu_flags
          IN  /\ calls' = Append(calls, Call("detect_virtualization", fresh,
                                             detect_virtualization(cpu, flags)))
              /\ installed' = IF fresh THEN d.installed ELSE installed
    /\ UNCHANGED <<pc, host, cpu_flags, cpu_info, cpu, virt, storage, memory, gpu,
                   score, recommended, improvement, comp_flags, capabilities,
                   output_file, exit_code, error, site_packages, files, backups>>

\* calculate_optimization_score(cpu, virt, storage, memory), the same way
CallCalculateOptimizationScore ==
    /\ MayCall
    /\ \E fresh \in BOOLEAN :
          LET d == fresh_detector(host, installed, site_packages)
          IN  /\ calls' = Append(calls,
                     Call("calculate_optimization_score", fresh,
                          calculate_optimization_score(cpu, virt, storage, memory)))
              /\ installed' = IF fresh THEN d.installed ELSE installed
    /\ UNCHANGED <<pc, host, cpu_flags, cpu_info, cpu, virt, storage, memory, gpu,
                   score, recommended, improvement, comp_flags, capabilities,
                   output_file, exit_code, error, site_packages, files, backups>>

\* generate_compilation_flags(cpu, virt, memory), the same way
CallGenerateCompilationFlags ==
    /\ MayCall
    /\ \E fresh \in BOOLEAN :
          LET d == fresh_detector(host, installed, site_packages)
          IN  /\ calls' = Append(calls,
                     Call("generate_compilation_flags", fresh,
                          generate_compilation_flags(cpu, virt, memory)))
              /\ installed' = IF fresh THEN d.installed ELSE installed
    /\ UNCHANGED <<pc, host, cpu_flags, cpu_info, cpu, virt, storage, memory, gpu,
                   score, recommended, improvement, comp_flags, capabilities,
                   output_file, exit_code, error, site_packages, files, backups>>

RepeatTokens == {"vmx", "svm", "ept", "vpid", "avx2", "aes", "bmi1", "bmi2"}

RepeatBases ==
    [ flags  : {FlagLine(S) : S \in SUBSET RepeatTokens},
      cores  : {"2", "8"},
      memkb  : {"67108864"},
      hp1g   : {TRUE},
      nvme   : {1},
      gpu    : {"none"} ]

RepeatInit ==
    /\ pc = "import"
    /\ \E b \in RepeatBases :
          /\ host = WellFormed(b)
          /\ installed = BaseTools(b)
    /\ Blank

RepeatNext ==
    \/ FlagsNext
    \/ CallDetectVirtualization
    \/ CallCalculateOptimizationScore
    \/ CallGenerateCompilationFlags

RepeatSpec == RepeatInit /\ [][RepeatNext]_vars

----------------------------------------------------------------------------
(* vmware_wizard.py: the recommendation the wizard reads from the report *)

\* display_hardware_summary: the mode of the Performance Analysis panel, ""
\* when the panel is not shown
summary_recommended(report) ==
    IF "optimization" \in DOMAIN report THEN report.optimization.recommended_mode ELSE ""

\* select_optimization_mode: the mode of "Recommended for your hardware"
select_recommended(report) ==
    IF "optimization" \in DOMAIN report THEN report.optimization.recommended_mode
    ELSE "optimized"

\* display_hardware_summary and select_optimization_mode on the report that
\* run_hardware_detection loaded; the user picks a mode or cancels
SelectOptimizationMode ==
    /\ pc = "done"
    /\ calls = <<>>
    /\ \E choice \in {"optimized", "vanilla", "cancelled"} :
          /\ calls' = <<Call("select_optimization_mode", FALSE,
                             [ summary           |-> summary_recommended(output_file),
                               recommended       |-> select_recommended(output_file),
                               optimization_mode |-> choice ])>>
          /\ pc' = IF choice = "cancelled" THEN "exited" ELSE "mode_selected"
    /\ UNCHANGED <<host, installed, cpu_flags, cpu_info, cpu, virt, storage, memory,
                   gpu, score, recommended, improvement, comp_flags, capabilities,
                   output_file, exit_code, error, site_packages, files, backups>>

WizardNext ==
    \/ FlagsNext
    \/ SelectOptimizationMode

WizardSpec == RepeatInit /\ [][WizardNext]_vars

----------------------------------------------------------------------------
(* vmware_wizard.py: select_kernels *)

\* one entry of detect_installed_kernels: supported is kernel 6.16 or 6.17
KernelInfo(major, minor, headers, current) ==
    [ major             |-> major,
      minor             |-> minor,
      headers_installed |-> headers,
      is_current        |-> current,
      supported         |-> major = 6 /\ minor \in {16, 17} ]

\* sys.exit(code)
Exit(code) == [exited |-> TRUE, code |-> code, selected |-> <<>>]

Return(selected) == [exited |-> FALSE, code |-> 0, selected |-> selected]

\* the index of the default: the current kernel when it has headers, else 0
current_idx(supported) ==
    LET at == {i \in DOMAIN supported :
                  supported[i].is_current /\ supported[i].headers_installed}
    IN  IF at = {} THEN 0 ELSE (CHOOSE i \in at : \A j \in at : i <= j) - 1

\* the questionary path: choice is 0 for a cancelled prompt, the place of a
\* kernel (one with headers: the others are disabled), or one more for 'all'
select_with_questionary(supported, choice) ==
    LET with_headers == SelectSeq(supported, LAMBDA k : k.headers_installed)
    IN  IF choice = 0 THEN Exit(0)
        ELSE IF choice = Len(supported) + 1
        THEN (IF with_headers = <<>> THEN Exit(1) ELSE Return(with_headers))
        ELSE Return(<<supported[choice]>>)

\* the plain-input path: text is what the user typed
select_with_input(supported, text) ==
    LET choice_input == IF text = "" THEN str(current_idx(supported) + 1) ELSE text
        number == parse_number(choice_input)
    IN  IF choice_input = "all" \/ choice_input = str(Len(supported) + 1)
        THEN Return(SelectSeq(supported, LAMBDA k : k.headers_installed))
        ELSE IF number.raised THEN Exit(1)
        ELSE IF number.value - 1 \notin 0..(Len(supported) - 1) THEN Exit(1)
        ELSE IF supported[number.value].headers_installed
        THEN Return(<<supported[number.value]>>)
        ELSE Exit(1)

\* what questionary lets the user choose
QuestionaryChoices(supported) ==
    {0, Len(supported) + 1}
    \cup {i \in DOMAIN supported : supported[i].headers_installed}

\* what the user may type
InputTexts == {"", "all", "0", "1", "2", "3", "x"}

\* select_kernels: [exited, code, selected]
select_kernels(detected, has_questionary, choice) ==
    LET supported == SelectSeq(detected, LAMBDA k : k.supported)
    IN  IF supported = <<>> THEN Exit(1)
        ELSE IF has_questionary THEN select_with_questionary(supported, choice)
        ELSE select_with_input(supported, choice)

\* self.selected_kernels = self.select_kernels()
SelectKernels ==
    /\ pc = "select_kernels"
    /\ LET supported == SelectSeq(host.detected_kernels, LAMBDA k : k.supported)
       IN  \/ /\ host.has_questionary
              /\ \E c \in QuestionaryChoices(supported) :
                    calls' = <<Call("select_kernels", FALSE,
                                    select_kernels(host.detected_kernels, TRUE, c))>>
           \/ /\ ~host.has_questionary
              /\ \E t \in InputTexts :
                    calls' = <<Call("select_kernels", FALSE,
                                    select_kernels(host.detected_kernels, FALSE, t))>>
    /\ pc' = IF calls'[1].result.exited THEN "exited" ELSE "kernels_selected"
    /\ exit_code' = IF calls'[1].result.exited THEN calls'[1].result.code ELSE exit_code
    /\ UNCHANGED <<host, installed, cpu_flags, cpu_info, cpu, virt, storage, memory,
                   gpu, score, recommended, improvement, comp_flags, capabilities,
                   output_file, error, site_packages, files, backups>>

\* the kernels of /lib/modules: 5.16, 6.15, 6.16, 6.17, with or without headers
Kernels ==
    { KernelInfo(v[1], v[2], h, FALSE) :
        v \in {<<5, 16>>, <<6, 15>>, <<6, 16>>, <<6, 17>>}, h \in BOOLEAN }

\* none, one or two kernels; the first one is the running kernel
DetectedKernels ==
    {<<>>} \cup {<<[k EXCEPT !.is_current = TRUE]>> : k \in Kernels}
    \cup {<<[k EXCEPT !.is_current = TRUE], l>> : k \in Kernels, l \in Kernels}
    \cup {<<l, [k EXCEPT !.is_current = TRUE]>> : k \in Kernels, l \in Kernels}

KernelInit ==
    /\ pc = "select_kernels"
    /\ \E ks \in DetectedKernels, q \in BOOLEAN :
          host = [fault |-> NoFault, detected_kernels |-> ks, has_questionary |-> q]
    /\ installed = {}
    /\ cpu_flags = <<>>
    /\ cpu_info = NoCpuInfo
    /\ cpu = NoCpu
    /\ virt = NoVirt
    /\ storage = <<>>
    /\ memory = NoMemory
    /\ gpu = NoGpu
    /\ score = 0
    /\ recommended = ""
    /\ improvement = <<0, 0>>
    /\ comp_flags = NoFlags
    /\ capabilities = NoCapabilities
    /\ output_file = NoFile
    /\ exit_code = None
    /\ error = ""
    /\ site_packages = PythonPackages
    /\ calls = <<>>
    /\ files = NoFiles
    /\ backups = NoFiles

KernelNext == SelectKernels

KernelSpec == KernelInit /\ [][KernelNext]_vars

----------------------------------------------------------------------------
(* HardwareDetector._detect_cpu_generation *)

\* _detect_cpu_generation with the AMD patterns asked before the Intel ones
detect_cpu_generation_amd_first(model_name) ==
    IF contains(<<"R", "y", "z", "e", "n", " ", "9", " ", "7">>, model_name)
    THEN <<"Ryzen 7000 series", "Zen 4">>
    ELSE IF contains(<<"R", "y", "z", "e", "n", " ", "9", " ", "5">>, model_name)
       \/ contains(<<"R", "y", "z", "e", "n", " ", "7", " ", "5">>, model_name)
    THEN <<"Ryzen 5000 series", "Zen 3">>
    ELSE IF contains(<<"R", "y", "z", "e", "n", " ", "9", " ", "3">>, model_name)
       \/ contains(<<"R", "y", "z", "e", "n", " ", "7", " ", "3">>, model_name)
    THEN <<"Ryzen 3000 series", "Zen 2">>
    ELSE IF contains(<<"i", "7", "-", "1", "1", "7", "0", "0">>, model_name)
       \/ contains(<<"i", "9", "-", "1", "1">>, model_name)
       \/ contains(<<"i", "5", "-", "1", "1">>, model_name)
    THEN <<"11th Gen (Rocket Lake)", "Cypress Cove">>
    ELSE IF contains(<<"i", "7", "-", "1", "2">>, model_name)
       \/ contains(<<"i", "9", "-", "1", "2">>, model_name)
       \/ contains(<<"i", "5", "-", "1", "2">>, model_name)
    THEN <<"12th Gen (Alder Lake)", "Golden Cove + Gracemont">>
    ELSE IF contains(<<"i", "7", "-", "1", "3">>, model_name)
       \/ contains(<<"i", "9", "-", "1", "3">>, model_name)
    THEN <<"13th Gen (Raptor Lake)", "Raptor Cove + Gracemont">>
    ELSE IF contains(<<"i", "7", "-", "1", "4">>, model_name)
       \/ contains(<<"i", "9", "-", "1", "4">>, model_name)
    THEN <<"14th Gen (Raptor Lake Refresh)", "Raptor Cove">>
    ELSE IF contains(<<"i", "7", "-", "1", "0">>, model_name)
       \/ contains(<<"i", "9", "-", "1", "0">>, model_name)
    THEN <<"10th Gen (Comet Lake)", "Skylake">>
    ELSE <<"Unknown", "Unknown">>

\* <<cpu_generation, microarchitecture>> of a model name, a text of characters
detect_cpu_generation(model_name) ==
    IF contains(<<"i", "7", "-", "1", "1", "7", "0", "0">>, model_name)
       \/ contains(<<"i", "9", "-", "1", "1">>, model_name)
       \/ contains(<<"i", "5", "-", "1", "1">>, model_name)
    THEN <<"11th Gen (Rocket Lake)", "Cypress Cove">>
    ELSE IF contains(<<"i", "7", "-", "1", "2">>, model_name)
       \/ contains(<<"i", "9", "-", "1", "2">>, model_name)
       \/ contains(<<"i", "5", "-", "1", "2">>, model_name)
    THEN <<"12th Gen (Alder Lake)", "Golden Cove + Gracemont">>
    ELSE IF contains(<<"i", "7", "-", "1", "3">>, model_name)
       \/ contains(<<"i", "9", "-", "1", "3">>, model_name)
    THEN <<"13th Gen (Raptor Lake)", "Raptor Cove + Gracemont">>
    ELSE IF contains(<<"i", "7", "-", "1", "4">>, model_name)
       \/ contains(<<"i", "9", "-", "1", "4">>, model_name)
    THEN <<"14th Gen (Raptor Lake Refresh)", "Raptor Cove">>
    ELSE IF contains(<<"i", "7", "-", "1", "0">>, model_name)
       \/ contains(<<"i", "9", "-", "1", "0">>, model_name)
    THEN <<"10th Gen (Comet Lake)", "Skylake">>
    ELSE IF contains(<<"R", "y", "z", "e", "n", " ", "9", " ", "7">>, model_name)
    THEN <<"Ryzen 7000 series", "Zen 4">>
    ELSE IF contains(<<"R", "y", "z", "e", "n", " ", "9", " ", "5">>, model_name)
       \/ contains(<<"R", "y", "z", "e", "n", " ", "7", " ", "5">>, model_name)
    THEN <<"Ryzen 5000 series", "Zen 3">>
    ELSE IF contains(<<"R", "y", "z", "e", "n", " ", "9", " ", "3">>, model_name)
       \/ contains(<<"R", "y", "z", "e", "n", " ", "7", " ", "3">>, model_name)
    THEN <<"Ryzen 3000 series", "Zen 2">>
    ELSE <<"Unknown", "Unknown">>

\* the pieces the model names are made of: every pattern, and texts that
\* come close to one
NameFragments ==
    { <<"i", "7", "-", "1", "1", "7", "0", "0">>,
      <<"i", "9", "-", "1", "1">>,
      <<"i", "5", "-", "1", "1">>,
      <<"i", "7", "-", "1", "2">>,
      <<"i", "9", "-", "1", "2">>,
      <<"i", "5", "-", "1", "2">>,
      <<"i", "7", "-", "1", "3">>,
      <<"i", "9", "-", "1", "3">>,
      <<"i", "7", "-", "1", "4">>,
      <<"i", "9", "-", "1", "4">>,
      <<"i", "7", "-", "1", "0">>,
      <<"i", "9", "-", "1", "0">>,
      <<"R", "y", "z", "e", "n", " ", "9", " ", "7">>,
      <<"R", "y", "z", "e", "n", " ", "9", " ", "5">>,
      <<"R", "y", "z", "e", "n", " ", "7", " ", "5">>,
      <<"R", "y", "z", "e", "n", " ", "9", " ", "3">>,
      <<"R", "y", "z", "e", "n", " ", "7", " ", "3">>,
      <<>>,
      <<"i", "7", "-", "1", "1", "6", "5", "G", "7">>,
      <<"i", "7", "-", "1", "1", "7", "0">>,
      <<"i", "5", "-", "1", "3">>,
      <<"i", "5", "-", "1", "0">>,
      <<"R", "y", "z", "e", "n", " ", "5", " ", "5">>,
      <<"R", "y", "z", "e", "n", " ", "9", " ", "9">>,
      <<"y", "z", "e", "n", " ", "9", " ", "7">> }

\* the model names: one or two fragments behind a vendor text
ModelNames ==
    { pre \o a \o gap \o b : pre \in {<<>>, <<"C", "o", "r", "e", " ">>},
                              gap \in {<<>>, <<" ">>},
                              a \in NameFragments, b \in NameFragments }

\* _detect_cpu_generation(model_name) is called
DetectCpuGeneration ==
    /\ pc = "detect_cpu_generation"
    /\ calls' = Append(calls, Call("_detect_cpu_generation", FALSE,
                                   detect_cpu_generation(host.model_name)))
    /\ pc' = "generation_detected"
    /\ UNCHANGED <<host, installed, cpu_flags, cpu_info, cpu, virt, storage, memory,
                   gpu, score, recommended, improvement, comp_flags, capabilities,
                   output_file, exit_code, error, site_packages, files, backups>>

GenerationInit ==
    /\ pc = "detect_cpu_generation"
    /\ \E n \in ModelNames : host = [fault |-> NoFault, model_name |-> n]
    /\ installed = {}
    /\ cpu_flags = <<>>
    /\ cpu_info = NoCpuInfo
    /\ cpu = NoCpu
    /\ virt = NoVirt
    /\ storage = <<>>
    /\ memory = NoMemory
    /\ gpu = NoGpu
    /\ score = 0
    /\ recommended = ""
    /\ improvement = <<0, 0>>
    /\ comp_flags = NoFlags
    /\ capabilities = NoCapabilities
    /\ output_file = NoFile
    /\ exit_code = None
    /\ error = ""
    /\ site_packages = PythonPackages
    /\ calls = <<>>
    /\ files = NoFiles
    /\ backups = NoFiles

GenerationNext == DetectCpuGeneration

GenerationSpec == GenerationInit /\ [][GenerationNext]_vars

----------------------------------------------------------------------------
(* tune_system.py: SystemOptimizer *)

\* the files the optimization steps write
GrubConfig == "/etc/default/grub"
SysctlConf == "/etc/sysctl.d/99-vmware-optimization.conf"
ServiceFile == "/etc/systemd/system/vmware-cpu-performance.service"
UdevFile == "/etc/udev/rules.d/60-vmware-nvme-scheduler.rules"

ManagedFiles == {GrubConfig, SysctlConf, ServiceFile, UdevFile}

\* a file of /etc: written tells whether this run has written it
Missing == [exists |-> FALSE, content |-> <<>>, written |-> FALSE]
Existing(content) == [exists |-> TRUE, content |-> content, written |-> FALSE]
Written(content) == [exists |-> TRUE, content |-> content, written |-> TRUE]

\* one kernel parameter of a command line: name, or name=value
Param(name, eq, value) == [name |-> name, eq |-> eq, value |-> value]
Word(name) == Param(name, FALSE, "")
Setting(name, value) == Param(name, TRUE, value)

\* one line of the GRUB defaults file: kind "cmdline" is
\* GRUB_CMDLINE_LINUX_DEFAULT="...", "unquoted" the same key without the
\* double quotes the pattern asks for, "text" any other line
GrubLine(kind, params) == [kind |-> kind, params |-> params]

\* a line that is no command line
TextLine(text) == GrubLine("text", <<Word(text)>>)

\* the prefixes of the parameters optimize_grub replaces
ConflictingPrefixes ==
    {"intel_iommu", "amd_iommu", "iommu", "hugepages", "hugepagesz",
     "default_hugepagesz", "transparent_hugepage", "mitigations"}

\* opt_params of optimize_grub
opt_params(h) ==
    (IF h.cpu_vendor = "intel" THEN <<Setting("intel_iommu", "on")>>
     ELSE IF h.cpu_vendor = "amd" THEN <<Setting("amd_iommu", "on")>>
     ELSE <<>>)
    \o << Setting("iommu", "pt"),
          Setting("default_hugepagesz", "1G"),
          Setting("hugepagesz", "1G"),
          Setting("hugepages", str(h.total_ram_gb \div 4)),
          Setting("transparent_hugepage", "never"),
          Setting("mitigations", "off") >>

\* the rewrite of the lines: every quoted command line loses its conflicting
\* parameters and gets opt_params; without one, three lines are appended
rewrite_grub(lines, h) ==
    LET keep(p) == ~(p.eq /\ p.name \in ConflictingPrefixes)
        new_line(l) == IF l.kind = "cmdline"
                       THEN GrubLine("cmdline", SelectSeq(l.params, keep) \o opt_params(h))
                       ELSE l
        modified == \E i \in DOMAIN lines : lines[i].kind = "cmdline"
        new_lines == [i \in DOMAIN lines |-> new_line(lines[i])]
    IN  IF modified THEN new_lines
        ELSE new_lines \o << GrubLine("text", <<>>),
                             TextLine("# VMware optimization"),
                             GrubLine("cmdline", opt_params(h)) >>

\* backup_file: the backup directory after the call
backup_file(fs, bk, path) ==
    IF fs[path].exists THEN [bk EXCEPT ![path] = Existing(fs[path].content)] ELSE bk

\* optimize_grub: [files, backups, raised]
optimize_grub(h, fs, bk) ==
    IF h.bootloader # "grub" \/ ~fs[GrubConfig].exists
    THEN [files |-> fs, backups |-> bk, raised |-> FALSE]
    ELSE [ files   |-> [fs EXCEPT ![GrubConfig] =
                            Written(rewrite_grub(fs[GrubConfig].content, h))],
           backups |-> backup_file(fs, bk, GrubConfig),
           raised  |-> h.family = "debian" /\ "update-grub" \in h.missing_tools ]

\* the text optimize_sysctl writes
SysctlText == <<TextLine("# VMware Workstation Performance Optimization")>>

\* optimize_sysctl: [files, backups]
optimize_sysctl(h, fs, bk) ==
    [ files   |-> [fs EXCEPT ![SysctlConf] = Written(SysctlText)],
      backups |-> IF fs[SysctlConf].exists THEN backup_file(fs, bk, SysctlConf) ELSE bk ]

\* the unit optimize_cpu_governor writes
ServiceText ==
    <<TextLine("[Unit]"), TextLine("Description=Set CPU governor to performance")>>

\* optimize_cpu_governor: [files, backups]; the unit is written once a
\* governor file took 'performance'
optimize_cpu_governor(h, fs, bk) ==
    IF h.cpufreq /\ h.governor_writable
    THEN [files |-> [fs EXCEPT ![ServiceFile] = Written(ServiceText)], backups |-> bk]
    ELSE [files |-> fs, backups |-> bk]

\* the rule optimize_io_scheduler writes
UdevText ==
    <<TextLine("# VMware optimization: Set scheduler to none for NVMe devices")>>

\* optimize_io_scheduler: [files, backups]
optimize_io_scheduler(h, fs, bk) ==
    IF ~h.has_nvme THEN [files |-> fs, backups |-> bk]
    ELSE [ files   |-> [fs EXCEPT ![UdevFile] = Written(UdevText)],
           backups |-> backup_file(fs, bk, UdevFile) ]

\* the packages install_packages asks for
PerformancePackages(h) ==
    IF h.family = "debian" THEN {"cpufrequtils", "linux-tools-generic", "tuned"} ELSE {}

\* the steps of run change nothing of the detection run
TuneFrame ==
    UNCHANGED <<host, cpu_flags, cpu_info, cpu, virt, storage, memory, gpu, score,
                recommended, improvement, comp_flags, capabilities, output_file,
                error, site_packages, calls>>

\* run: the root check and the confirmation
TuneStart ==
    /\ pc = "run"
    /\ IF ~host.is_root THEN pc' = "returned" /\ exit_code' = 1
       ELSE IF ~host.proceed THEN pc' = "returned" /\ exit_code' = 0
       ELSE pc' = "optimize_grub" /\ exit_code' = exit_code
    /\ UNCHANGED <<installed, files, backups>>
    /\ TuneFrame

\* self.optimize_grub(); a missing update-grub ends run in its except clause
OptimizeGrub ==
    /\ pc = "optimize_grub"
    /\ LET r == optimize_grub(host, files, backups)
       IN  /\ files' = r.files
           /\ backups' = r.backups
           /\ pc' = IF r.raised THEN "returned" ELSE "optimize_sysctl"
           /\ exit_code' = IF r.raised THEN 1 ELSE exit_code
    /\ UNCHANGED installed
    /\ TuneFrame

\* self.optimize_sysctl()
OptimizeSysctl ==
    /\ pc = "optimize_sysctl"
    /\ LET r == optimize_sysctl(host, files, backups)
       IN  files' = r.files /\ backups' = r.backups
    /\ pc' = "optimize_cpu_governor"
    /\ UNCHANGED <<installed, exit_code>>
    /\ TuneFrame

\* self.optimize_cpu_governor()
OptimizeCpuGovernor ==
    /\ pc = "optimize_cpu_governor"
    /\ LET r == optimize_cpu_governor(host, files, backups)
       IN  files' = r.files /\ backups' = r.backups
    /\ pc' = "optimize_io_scheduler"
    /\ UNCHANGED <<installed, exit_code>>
    /\ TuneFrame

\* self.optimize_io_scheduler()
OptimizeIoScheduler ==
    /\ pc = "optimize_io_scheduler"
    /\ LET r == optimize_io_scheduler(host, files, backups)
       IN  files' = r.files /\ backups' = r.backups
    /\ pc' = "install_packages"
    /\ UNCHANGED <<installed, exit_code>>
    /\ TuneFrame

\* self.install_packages(), self.apply_tuned_profile(), show_summary; return 0
InstallAndFinish ==
    /\ pc = "install_packages"
    /\ installed' = IF host.package_manager = "works"
                    THEN installed \cup PerformancePackages(host) ELSE installed
    /\ pc' = "returned"
    /\ exit_code' = 0
    /\ UNCHANGED <<files, backups>>
    /\ TuneFrame

\* the contents of the GRUB defaults file before the run
GrubContents ==
    { << TextLine("GRUB_TIMEOUT=5"),
         GrubLine("cmdline", <<Word("quiet"), Word("splash")>>) >>,
      << GrubLine("cmdline", <<Word("quiet"), Setting("iommu", "soft"),
                               Setting("mitigations", "auto")>>) >>,
      << TextLine("GRUB_TIMEOUT=5") >>,
      << GrubLine("unquoted", <<Word("quiet")>>) >> }

\* a text of the user's own
UserText == <<TextLine("# mine")>>

\* the files before the run: each one missing, or left by the user or by an
\* earlier run
TuneFiles ==
    { fs \in [ManagedFiles -> {Missing} \cup {Existing(c) : c \in GrubContents}
                              \cup {Existing(UserText), Existing(SysctlText),
                                    Existing(ServiceText), Existing(UdevText)}] :
        /\ fs[GrubConfig].exists => fs[GrubConfig].content \in GrubContents
        /\ fs[SysctlConf].exists => fs[SysctlConf].content \in {UserText, SysctlText}
        /\ fs[ServiceFile].exists => fs[ServiceFile].content \in {UserText, ServiceText}
        /\ fs[UdevFile].exists => fs[UdevFile].content \in {UserText, UdevText} }

\* the machines tune_system.py is run on
TuneHosts ==
    [ is_root           : BOOLEAN,
      proceed           : BOOLEAN,
      bootloader        : {"grub", "systemd-boot"},
      family            : {"debian"},
      cpu_vendor        : {"intel", "amd"},
      total_ram_gb      : {16},
      cpufreq           : {TRUE},
      governor_writable : BOOLEAN,
      has_nvme          : BOOLEAN,
      missing_tools     : {{}, {"update-grub"}},
      package_manager   : {"works"},
      files             : TuneFiles,
      fault             : {NoFault} ]

\* optimizer = SystemOptimizer(): the hardware and the distribution are known
TuneInit ==
    /\ pc = "run"
    /\ host \in TuneHosts
    /\ installed = {}
    /\ files = host.files
    /\ backups = [f \in ManagedFiles |-> Missing]
    /\ cpu_flags = <<>>
    /\ cpu_info = NoCpuInfo
    /\ cpu = NoCpu
    /\ virt = NoVirt
    /\ storage = <<>>
    /\ memory = NoMemory
    /\ gpu = NoGpu
    /\ score = 0
    /\ recommended = ""
    /\ improvement = <<0, 0>>
    /\ comp_flags = NoFlags
    /\ capabilities = NoCapabilities
    /\ output_file = NoFile
    /\ exit_code = None
    /\ error = ""
    /\ site_packages = PythonPackages
    /\ calls = <<>>

TuneNext ==
    \/ TuneStart
    \/ OptimizeGrub
    \/ OptimizeSysctl
    \/ OptimizeCpuGovernor
    \/ OptimizeIoScheduler
    \/ InstallAndFinish

TuneSpec == TuneInit /\ [][TuneNext]_vars

----------------------------------------------------------------------------
(* optimize_grub applied again to the file it has written *)

\* optimizer.optimize_grub(), once more on what the call before has left
CallOptimizeGrub ==
    /\ pc = "optimize_grub"
    /\ Len(calls) < MaxCalls
    /\ LET r == optimize_grub(host, files, backups)
       IN  /\ files' = r.files
           /\ backups' = r.backups
           /\ calls' = Append(calls, Call("optimize_grub", FALSE,
                                          r.files[GrubConfig].content))
    /\ UNCHANGED <<pc, host, installed, cpu_flags, cpu_info, cpu, virt, storage,
                   memory, gpu, score, recommended, improvement, comp_flags,
                   capabilities, output_file, exit_code, error, site_packages>>

\* the parameters found on a command line: the user's own, with and without
\* '=', and values of the parameters optimize_grub manages
KernelParams ==
    { Word("quiet"), Word("hugepages"), Setting("root", "x"),
      Setting("iommu", "soft"), Setting("mitigations", "auto"),
      Setting("intel_iommu", "on"), Setting("amd_iommu", "on"),
      Setting("hugepages", "4") }

\* the command lines: up to two parameters, a parameter may come twice
CommandLines ==
    {<<>>} \cup {<<p>> : p \in KernelParams}
    \cup {<<p, q>> : p \in KernelParams, q \in KernelParams}

\* the file: no line with the key, or one, quoted or not, before or after
\* another line
GrubTexts ==
    {<<>>, <<TextLine("GRUB_TIMEOUT=5")>>}
    \cup {<<GrubLine(k, c)>> : k \in {"cmdline", "unquoted"}, c \in CommandLines}
    \cup {<<TextLine("GRUB_TIMEOUT=5"), GrubLine(k, c)>> :
             k \in {"cmdline", "unquoted"}, c \in CommandLines}
    \cup {<<GrubLine(k, c), TextLine("GRUB_TIMEOUT=5")>> :
             k \in {"cmdline", "unquoted"}, c \in CommandLines}

GrubHosts ==
    [ is_root           : {TRUE},
      proceed           : {TRUE},
      bootloader        : {"grub"},
      family            : {"debian"},
      cpu_vendor        : {"intel", "amd"},
      total_ram_gb      : {16},
      cpufreq           : {TRUE},
      governor_writable : {TRUE},
      has_nvme          : {FALSE},
      missing_tools     : {{}},
      package_manager   : {"works"},
      files             : {[f \in ManagedFiles |->
                               IF f = GrubConfig THEN Existing(c) ELSE Missing] :
                             c \in GrubTexts},
      fault             : {NoFault} ]

GrubInit ==
    /\ pc = "optimize_grub"
    /\ host \in GrubHosts
    /\ installed = {}
    /\ files = host.files
    /\ backups = [f \in ManagedFiles |-> Missing]
    /\ cpu_flags = <<>>
    /\ cpu_info = NoCpuInfo
    /\ cpu = NoCpu
    /\ virt = NoVirt
    /\ storage = <<>>
    /\ memory = NoMemory
    /\ gpu = NoGpu
    /\ score = 0
    /\ recommended = ""
    /\ improvement = <<0, 0>>
    /\ comp_flags = NoFlags
    /\ capabilities = NoCapabilities
    /\ output_file = NoFile
    /\ exit_code = None
    /\ error = ""
    /\ site_packages = PythonPackages
    /\ calls = <<>>

GrubNext == CallOptimizeGrub

GrubSpec == GrubInit /\ [][GrubNext]_vars

----------------------------------------------------------------------------
(* calculate_optimization_score and generate_compilation_flags called with *)
(* any detection results                                                   *)

ScorerTokens == {"avx", "avx2", "avx512f", "aes", "bmi1", "bmi2"}

ScorerCores == {0, 3, 4, 7, 8}

\* total_gb in tenths of a GB
ScorerTotals == {0, 80, 319, 320, 639, 640}

ScorerCpus ==
    {CPUCapabilities(n, n, 0, FlagLine(S)) : n \in ScorerCores, S \in SUBSET ScorerTokens}
    \cup {CPUCapabilities(n, n, 0, FlagLine(S \cup {"sha_ni"})) :
            n \in {3, 4}, S \in SUBSET {"avx2", "avx512f", "aes", "bmi2"}}

ScorerVirts ==
    { VirtualizationCapabilities("Intel VT-x", e, ept, vpid, g, ept, FALSE, ept, FALSE,
                                 FALSE, FALSE, FALSE, FALSE) :
        e \in BOOLEAN, ept \in BOOLEAN, vpid \in BOOLEAN, g \in BOOLEAN }

\* n NVMe devices, after one SATA device or none
RECURSIVE NvmeList(_)
NvmeList(n) ==
    IF n = 0 THEN <<>>
    ELSE Append(NvmeList(n - 1), StorageDevice(NvmeDir(n).name, "nvme", 4, 4, 7876))

ScorerStorages ==
    {NvmeList(n) : n \in 0..MaxStorage}
    \cup {<<StorageDevice("sda", "ssd", None, None, None)>> \o NvmeList(n) : n \in 0..MaxStorage}

ScorerMemories ==
    {MemoryInfo(t, 2, TRUE, hp, 0, 0, "DDR4", 3200) : t \in ScorerTotals, hp \in BOOLEAN}

NoHost == [fault |-> NoFault]

ScorerInit ==
    /\ pc = "score"
    /\ host = NoHost
    /\ installed = {}
    /\ cpu_flags = <<>>
    /\ cpu_info = NoCpuInfo
    /\ cpu \in ScorerCpus
    /\ virt \in ScorerVirts
    /\ storage \in ScorerStorages
    /\ memory \in ScorerMemories
    /\ gpu = NoGpu
    /\ score = 0
    /\ recommended = ""
    /\ improvement = <<0, 0>>
    /\ comp_flags = NoFlags
    /\ capabilities = NoCapabilities
    /\ output_file = NoFile
    /\ exit_code = None
    /\ error = ""
    /\ site_packages = PythonPackages
    /\ calls = <<>>
    /\ files = NoFiles
    /\ backups = NoFiles

ScorerNext == ScoreAndPlan

ScorerSpec == ScorerInit /\ [][ScorerNext]_vars

----------------------------------------------------------------------------
(* Properties of the scorer *)

\* C1: for every input of calculate_optimization_score the returned score is
\* an integer between 0 and 100.
ScoreBounds ==
    pc = "report" => (score \in Int /\ 0 <= score /\ score <= 100)

\* every rule at its maximum
ScoreBoundsWitness == pc = "report" /\ score = 100

\* C2: the returned triple obeys the thresholds (score >= 70: optimized,
\* (30,45); 50 <= score < 70: optimized, (20,35); score < 50: vanilla,
\* (10,20)) and the SystemCapabilities of detect_all carries that triple.
ModeScoreConsistency ==
    pc = "report" =>
        /\ <<score, recommended, improvement>>
              = calculate_optimization_score(cpu, virt, storage, memory)
        /\ score >= 70 => (recommended = "optimized" /\ improvement = <<30, 45>>)
        /\ (50 <= score /\ score < 70)
              => (recommended = "optimized" /\ improvement = <<20, 35>>)
        /\ score < 50 => (recommended = "vanilla" /\ improvement = <<10, 20>>)
        /\ capabilities.optimization_score = score
        /\ capabilities.recommended_mode = recommended
        /\ capabilities.estimated_improvement_percent = improvement

\* a score on a threshold, carried by the SystemCapabilities
ModeScoreWitness ==
    /\ pc = "report"
    /\ score = 70
    /\ capabilities.optimization_score = 70
    /\ capabilities.recommended_mode = "optimized"

\* the points the claims give to the categories
ClaimedCpuPoints(c) ==
    LET simd   == IF c.has_avx512f THEN 15 ELSE IF c.has_avx2 THEN 10
                  ELSE IF c.has_avx THEN 5 ELSE 0
        aes    == IF c.has_aes_ni THEN 10 ELSE 0
        bmi    == IF c.has_bmi1 /\ c.has_bmi2 THEN 5 ELSE 0
        ncores == IF c.cores >= 8 THEN 10 ELSE IF c.cores >= 4 THEN 5 ELSE 0
    IN  simd + aes + bmi + ncores

ClaimedStoragePoints(s) ==
    LET n == Len(SelectSeq(s, LAMBDA d : d.device_type = "nvme"))
    IN  IF n >= 2 THEN 15 ELSE IF n = 1 THEN 10 ELSE 0

ClaimedMemoryPoints(m) ==
    LET ram == IF m.total_gb >= 640 THEN 10 ELSE IF m.total_gb >= 320 THEN 5 ELSE 0
        hp  == IF m.hugepages_1gb_supported THEN 5 ELSE 0
    IN  ram + hp

ClaimedVirtPoints(v) ==
    LET enabled == IF v.enabled THEN 10 ELSE 0
        paging  == IF v.ept_supported \/ v.npt_supported THEN 10 ELSE 0
        large   == IF v.ept_1gb_pages THEN 5 ELSE 0
        vpid    == IF v.vpid_supported THEN 5 ELSE 0
    IN  enabled + paging + large + vpid

\* C4: apart from the virtualization points the score is the sum of the CPU,
\* storage and memory points of the rules, the SIMD tiers not cumulative, and
\* no category exceeds 40 / 15 / 15.
CategorySum ==
    pc = "report" =>
        /\ score - virtualization_points(virt)
              = ClaimedCpuPoints(cpu) + ClaimedStoragePoints(storage)
                + ClaimedMemoryPoints(memory)
        /\ cpu_features_points(cpu) <= 40
        /\ storage_points(storage) <= 15
        /\ memory_points(memory) <= 15

\* all three SIMD tiers present: only the highest one counts
CategorySumWitness ==
    /\ pc = "report"
    /\ cpu.has_avx512f /\ cpu.has_avx2 /\ cpu.has_avx
    /\ cpu_features_points(cpu) = 40
    /\ nvme_count(storage) = 1
    /\ memory.total_gb = 320

\* C3: the virtualization category is +10 enabled, +10 EPT or NPT, +5 EPT
\* 1GB pages, +5 VPID; an AMD CPU with svm and npt earns the +10 of nested
\* paging like an Intel CPU with vmx and ept.
VirtCategoryCountsNpt ==
    pc = "report" =>
        score = cpu_features_points(cpu) + ClaimedVirtPoints(virt)
                + storage_points(storage) + memory_points(memory)

\* the score of the run had /proc/cpuinfo reported the flags line `flags`
score_of_flags(flags) ==
    LET c == detect_cpu(host, installed, flags, cpu_info).cpu
    IN  calculate_optimization_score(c, detect_virtualization(c, flags),
                                     storage, memory)[1]

\* the boolean fields the scorer reads
CpuScoreFields == {"has_avx512f", "has_avx2", "has_avx", "has_aes_ni", "has_bmi1", "has_bmi2"}

VirtScoreFields == {"enabled", "ept_supported", "ept_1gb_pages", "vpid_supported"}

score_of(c, v, s, m) == calculate_optimization_score(c, v, s, m)[1]

\* C5: switching one capability flag from absent to present, all else fixed,
\* never decreases the score: for the boolean fields the scorer reads and for
\* the raw CPU flag tokens that pass through detect_cpu and
\* detect_virtualization.
Monotonicity ==
    pc = "report" =>
        /\ score = score_of_flags(cpu_flags)
        /\ \A t \in AllTokens : score_of_flags(Append(cpu_flags, t)) >= score
        /\ \A f \in CpuScoreFields :
              score_of([cpu EXCEPT ![f] = TRUE], virt, storage, memory)
                 >= score_of([cpu EXCEPT ![f] = FALSE], virt, storage, memory)
        /\ \A v \in ScorerVirts : \A f \in VirtScoreFields :
              score_of(cpu, [v EXCEPT ![f] = TRUE], storage, memory)
                 >= score_of(cpu, [v EXCEPT ![f] = FALSE], storage, memory)
        /\ score_of(cpu, virt, storage, [memory EXCEPT !.hugepages_1gb_supported = TRUE])
              >= score_of(cpu, virt, storage,
                          [memory EXCEPT !.hugepages_1gb_supported = FALSE])

\* an AMD-V machine with nested paging, to which vmx can still be added, and
\* a lower SIMD tier to which a higher one can be added
MonotonicityWitness ==
    /\ pc = "report"
    /\ InList("svm", cpu_flags) /\ InList("npt", cpu_flags)
    /\ ~InList("vmx", cpu_flags)
    /\ cpu.has_avx /\ ~cpu.has_avx2 /\ ~cpu.has_avx512f
    /\ score_of_flags(Append(cpu_flags, "vmx")) >= score

----------------------------------------------------------------------------
(* Properties of the report *)

\* text.split(' ')
split_spaces(text) == SelectSeq(text, LAMBDA t : t # " ")

\* the tokens stand at the odd places, single spaces between them
SingleSpaced(text) ==
    \A i \in DOMAIN text : (i % 2 = 0) <=> (text[i] = " ")

\* C10: in every full report optimized_cflags is the base level, then the
\* architecture flags, then the feature flags, joined by single spaces, every
\* token kept and none added; optimized_ldflags is the link flags joined by
\* spaces; make_variables is the make-variable mapping of the plan.
ReportStrings ==
    (pc = "done" /\ exit_code = 0) =>
        LET plan == output_file.compilation_flags
        IN  /\ plan = generate_compilation_flags(cpu, virt, memory)
            /\ split_spaces(output_file.optimized_cflags)
                  = <<plan.base_optimization>> \o plan.architecture_flags
                    \o plan.feature_flags
            /\ SingleSpaced(output_file.optimized_cflags)
            /\ Len(output_file.optimized_cflags)
                  = 2 * (1 + Len(plan.architecture_flags) + Len(plan.feature_flags)) - 1
            /\ split_spaces(output_file.optimized_ldflags) = plan.link_flags
            /\ SingleSpaced(output_file.optimized_ldflags)
            /\ output_file.make_variables = plan.make_flags

\* a report whose plan has all three parts and a link flag
ReportStringsWitness ==
    /\ pc = "done" /\ exit_code = 0
    /\ cpu.has_avx512f /\ cpu.has_aes_ni /\ cpu.has_bmi2 /\ cpu.cores >= 4
    /\ Len(output_file.optimized_cflags) = 29
    /\ output_file.optimized_ldflags = <<"-flto">>

----------------------------------------------------------------------------
(* Properties of the failure handling *)

FullReportKeys ==
    {"capabilities", "compilation_flags", "optimized_cflags", "optimized_ldflags",
     "make_variables"}

IsFullReport(file) == DOMAIN file = FullReportKeys

IsMinimalReport(file) ==
    /\ "optimization" \in DOMAIN file
    /\ file.optimization.recommended_mode = "optimized"
    /\ file.optimization.optimization_score = 50

\* C6: every report main writes, after success and after the fallback alike,
\* has the five top-level keys.
ReportShape == pc = "done" => IsFullReport(output_file)

\* C7: an unreadable /proc/cpuinfo ends the run as a detection failure
\* (minimal report, failure status), and main fails for nothing else.
StructuralFailure ==
    pc = "done" =>
        /\ ~host.cpuinfo_readable => (exit_code = 1 /\ IsMinimalReport(output_file))
        /\ exit_code # 0 => ~host.cpuinfo_readable

\* the detection results of the run on the machine without its fault
Reference ==
    LET h0     == WellFormed(host.base)
        tools0 == BaseTools(host.base)
        parsed == parse_cpuinfo(h0)
        c      == detect_cpu(h0, tools0, parsed.cpu_flags, parsed.cpu_info).cpu
    IN  [ cpu     |-> c,
          virt    |-> detect_virtualization(c, parsed.cpu_flags),
          storage |-> detect_storage(h0.nvme),
          memory  |-> detect_memory(h0, tools0).memory,
          gpu     |-> detect_gpu(h0, tools0) ]

\* the fields derived from a fact source
DerivedFields(f) ==
    CASE f \in {"cpu_mhz_malformed", "cpu_mhz_absent"} -> {"max_freq_mhz"}
      [] f \in {"lscpu_cores_absent", "lscpu_cores_malformed"} -> {"cores"}
      [] f = "lscpu_cpus_malformed" -> {"threads"}
      [] f \in {"meminfo_unreadable", "memtotal_malformed"} -> {"total_gb", "channels"}
      [] f \in {"nr_hugepages_absent", "nr_hugepages_malformed",
                "nr_hugepages_unreadable"} -> {"hugepages_2mb_available"}
      [] f \in {"nvme_speed_absent", "nvme_speed_unreadable"} ->
            {"pcie_generation", "max_bandwidth_mbps"}
      [] OTHER -> {}

SameExcept(r, r0, fields) == \A k \in (DOMAIN r0) \ fields : r[k] = r0[k]

\* C8: with one fact source absent, unreadable or malformed and all others
\* well-formed, the run ends with a full report and success, and every
\* field not derived from that source is as in the well-formed run.
MissingFactPolicy ==
    (pc = "done" /\ host.fault.kind = "fact" /\ host.fault.what # "cpuinfo_unreadable") =>
        /\ exit_code = 0
        /\ IsFullReport(output_file)
        /\ LET caps == output_file.capabilities
               d    == DerivedFields(host.fault.what)
           IN  /\ SameExcept(caps.cpu, Reference.cpu, d)
               /\ caps.virtualization = Reference.virt
               /\ Len(caps.storage_devices) = Len(Reference.storage)
               /\ \A i \in DOMAIN Reference.storage :
                     SameExcept(caps.storage_devices[i], Reference.storage[i],
                                IF i = 1 THEN d ELSE {})
               /\ SameExcept(caps.memory, Reference.memory, d)
               /\ caps.gpu = Reference.gpu

\* C9: a tool that exits non-zero or is not installed is never fatal: the
\* run ends with a full report and success.
ToolFailurePolicy ==
    (pc = "done" /\ host.fault.kind \in {"nonzero", "missing"}) =>
        /\ exit_code = 0
        /\ IsFullReport(output_file)

----------------------------------------------------------------------------
(* Properties of the order of the flags *)

ArchitectureTokens ==
    {"-march=native", "-mtune=native", "-mavx512f", "-mavx512dq", "-mavx2", "-mfma",
     "-mtune=generic"}

ConditionalTokens == {"-maes", "-mbmi", "-mbmi2", "-msha"}

UnconditionalTokens ==
    {"-ffast-math", "-funroll-loops", "-fomit-frame-pointer", "-fno-strict-aliasing",
     "-fno-common"}

\* every token of A stands before every token of B
AllBefore(A, B, toks) ==
    \A i, j \in DOMAIN toks : (toks[i] \in A /\ toks[j] \in B) => i < j

\* C11: in the optimized_cflags of every full report the architecture flags
\* stand before the feature flags, the conditional feature flags before the
\* unconditional ones, and -flto, when present, is the last token; for an
\* AVX-512F, 8-core, AES-NI CPU the tokens named by the claim appear in the
\* claimed relative order.
FlagOrder ==
    (pc = "done" /\ exit_code = 0) =>
        LET toks == split_spaces(output_file.optimized_cflags)
        IN  /\ AllBefore(ArchitectureTokens,
                         ConditionalTokens \cup UnconditionalTokens \cup {"-flto"}, toks)
            /\ AllBefore(ConditionalTokens, UnconditionalTokens, toks)
            /\ \A i \in DOMAIN toks : toks[i] = "-flto" => i = Len(toks)
            /\ (cpu.has_avx512f /\ cpu.cores >= 8 /\ cpu.has_aes_ni) =>
                  SelectSeq(toks, LAMBDA t : t \in ArchitectureTokens
                                          \cup {"-maes", "-flto"} \cup UnconditionalTokens)
                    = <<"-march=native", "-mtune=native", "-mavx512f", "-mavx512dq",
                        "-mfma", "-maes", "-ffast-math", "-funroll-loops",
                        "-fomit-frame-pointer", "-fno-strict-aliasing", "-fno-common",
                        "-flto">>

\* the report of an AVX-512F, 8-core CPU with every conditional feature flag
FlagOrderWitness ==
    /\ pc = "done" /\ exit_code = 0
    /\ cpu.has_avx512f /\ cpu.cores >= 8
    /\ cpu.has_aes_ni /\ cpu.has_bmi2 /\ cpu.has_sha_ni
    /\ LET toks == split_spaces(output_file.optimized_cflags)
       IN  Len(toks) = 16 /\ toks[7] = "-maes" /\ toks[16] = "-flto"

----------------------------------------------------------------------------
(* Properties of the plan *)

MakeVariableNames ==
    {"VMWARE_OPTIMIZE", "HAS_VTX_EPT", "HAS_VPID", "HAS_AVX512", "HAS_AVX2",
     "HAS_AES_NI", "ENABLE_HUGEPAGES"}

PlanKeys ==
    {"base_optimization", "architecture_flags", "feature_flags", "link_flags",
     "make_flags"}

\* C12: generate_compilation_flags returns a plan for every capability input,
\* the all-false one included; its make variables are exactly the seven
\* names, each "0" or "1", and "1" exactly when the capability is present.
MakeVariables ==
    pc = "report" =>
        LET mv == comp_flags.make_flags
        IN  /\ DOMAIN comp_flags = PlanKeys
            /\ DOMAIN mv = MakeVariableNames
            /\ \A k \in MakeVariableNames : mv[k] \in {"0", "1"}
            /\ mv.VMWARE_OPTIMIZE = "1" <=> (cpu.has_avx2 \/ cpu.has_avx512f)
            /\ mv.HAS_VTX_EPT = "1" <=> virt.ept_supported
            /\ mv.HAS_VPID = "1" <=> virt.vpid_supported
            /\ mv.HAS_AVX512 = "1" <=> cpu.has_avx512f
            /\ mv.HAS_AVX2 = "1" <=> cpu.has_avx2
            /\ mv.HAS_AES_NI = "1" <=> cpu.has_aes_ni
            /\ mv.ENABLE_HUGEPAGES = "1" <=> memory.hugepages_1gb_supported

\* a plan for AVX-512F without AVX2, EPT without VPID
MakeVariablesWitness ==
    /\ pc = "report"
    /\ cpu.has_avx512f /\ ~cpu.has_avx2
    /\ virt.ept_supported /\ ~virt.vpid_supported
    /\ comp_flags.make_flags.VMWARE_OPTIMIZE = "1"
    /\ comp_flags.make_flags.HAS_AVX2 = "0"
    /\ comp_flags.make_flags.HAS_VTX_EPT = "1"
    /\ comp_flags.make_flags.HAS_VPID = "0"

\* every capability flag false, no virtualization, no NVMe device, at most
\* 8 GB of RAM, no 1GB huge pages, fewer than 4 cores
AllFalseInput ==
    /\ \A k \in {"has_avx", "has_avx2", "has_avx512f", "has_aes_ni", "has_sha_ni",
                 "has_vmx", "has_svm", "has_ept", "has_npt", "has_bmi1", "has_bmi2"} :
          ~cpu[k]
    /\ cpu.cores < 4
    /\ ~virt.enabled /\ ~virt.ept_supported /\ ~virt.vpid_supported
    /\ ~virt.ept_1gb_pages /\ ~virt.npt_supported
    /\ nvme_count(storage) = 0
    /\ memory.total_gb <= 80
    /\ ~memory.hugepages_1gb_supported

\* C13: on the all-false input the scorer returns 0, 'vanilla', (10,20) and
\* the generator returns -O2, the generic-tune flag alone, the five
\* unconditional feature flags alone, no link flag and every make variable "0".
DegenerateCase ==
    (pc = "report" /\ AllFalseInput) =>
        /\ score = 0
        /\ recommended = "vanilla"
        /\ improvement = <<10, 20>>
        /\ comp_flags.base_optimization = "-O2"
        /\ comp_flags.architecture_flags = <<"-mtune=generic">>
        /\ comp_flags.feature_flags
              = <<"-ffast-math", "-funroll-loops", "-fomit-frame-pointer",
                  "-fno-strict-aliasing", "-fno-common">>
        /\ comp_flags.link_flags = <<>>
        /\ \A k \in DOMAIN comp_flags.make_flags : comp_flags.make_flags[k] = "0"

\* the all-false input at its upper edge: 3 cores, 8 GB, one SATA device
DegenerateCaseWitness ==
    /\ pc = "report" /\ AllFalseInput
    /\ cpu.cores = 3 /\ memory.total_gb = 80 /\ Len(storage) = 1
    /\ score = 0 /\ recommended = "vanilla"
    /\ comp_flags.architecture_flags = <<"-mtune=generic">>

\* every rule of the score at its maximum
AllRulesAtMaximum ==
    /\ cpu.has_avx512f /\ cpu.has_aes_ni /\ cpu.has_bmi1 /\ cpu.has_bmi2
    /\ cpu.cores >= 8
    /\ virt.enabled /\ virt.ept_supported /\ virt.ept_1gb_pages /\ virt.vpid_supported
    /\ Len(SelectSeq(storage, LAMBDA d : d.device_type = "nvme")) >= 2
    /\ memory.total_gb >= 640
    /\ memory.hugepages_1gb_supported

\* the input of the claim, run through detect_virtualization and the scorer
FullHouseScore ==
    LET flags == FlagLine({"avx512f", "avx2", "aes", "bmi1", "bmi2", "vmx", "ept",
                           "pdpe1gb", "vpid"})
        c     == CPUCapabilities(16, 16, 0, flags)
    IN  calculate_optimization_score(c, detect_virtualization(c, flags), NvmeList(2),
                                     MemoryInfo(640, 4, TRUE, TRUE, 0, 0, "DDR4", 3200))

\* C14: the score is 100 exactly when every rule is at its maximum, and then
\* the mode is 'optimized' with improvement (30,45); the 16-core input of the
\* claim yields (100, 'optimized', (30,45)).
PerfectScore ==
    pc = "report" =>
        /\ score = 100 <=> AllRulesAtMaximum
        /\ score = 100 => (recommended = "optimized" /\ improvement = <<30, 45>>)
        /\ FullHouseScore = <<100, "optimized", <<30, 45>>>>

\* a scored input with every rule at its maximum
PerfectScoreWitness ==
    /\ pc = "report"
    /\ AllRulesAtMaximum
    /\ <<score, recommended, improvement>> = <<100, "optimized", <<30, 45>>>>

----------------------------------------------------------------------------
(* Properties of detect_virtualization *)

IntelFields ==
    {"ept_supported", "vpid_supported", "ept_1gb_pages", "ept_2mb_pages", "ept_ad_bits",
     "unrestricted_guest", "posted_interrupts", "vmfunc_supported"}

AmdFields == {"npt_supported", "decode_assists", "flush_by_asid"}

\* detect_virtualization has returned
VirtDetected == pc \in {"detect_storage", "detect_memory", "detect_gpu", "score",
                        "report", "done"}

\* C15: detect_virtualization returns one of 'Intel VT-x', 'AMD-V', 'None':
\* VT-x whenever vmx is present, AMD-V for svm without vmx, None otherwise;
\* under AMD-V every Intel field is false, under VT-x every AMD field is
\* false, under None all of them and enabled are false.
TechnologyExclusive ==
    VirtDetected =>
        /\ virt.technology \in {"Intel VT-x", "AMD-V", "None"}
        /\ virt.technology = "Intel VT-x" <=> InList("vmx", cpu_flags)
        /\ virt.technology = "AMD-V"
              <=> (InList("svm", cpu_flags) /\ ~InList("vmx", cpu_flags))
        /\ virt.technology = "None"
              <=> (~InList("svm", cpu_flags) /\ ~InList("vmx", cpu_flags))
        /\ virt.technology = "AMD-V" => \A k \in IntelFields : ~virt[k]
        /\ virt.technology = "Intel VT-x" => \A k \in AmdFields : ~virt[k]
        /\ virt.technology = "None"
              => (~virt.enabled /\ \A k \in IntelFields \cup AmdFields : ~virt[k])

\* vmx and svm together with the AMD tokens: VT-x, and no AMD field is set
TechnologyExclusiveWitness ==
    /\ pc = "detect_storage"
    /\ InList("vmx", cpu_flags) /\ InList("svm", cpu_flags)
    /\ InList("npt", cpu_flags) /\ InList("decode_assists", cpu_flags)
    /\ virt.technology = "Intel VT-x"
    /\ ~virt.npt_supported /\ ~virt.decode_assists

----------------------------------------------------------------------------
(* Properties of detect_storage *)

StorageDetected == pc \in {"detect_memory", "detect_gpu", "score", "report", "done"}

\* C16: for every device detect_storage returns, max_bandwidth_mbps is
\* defined if and only if pcie_generation and pcie_lanes are both defined.
BandwidthIffLink ==
    StorageDetected =>
        \A i \in DOMAIN storage :
            (storage[i].max_bandwidth_mbps # None)
                <=> (storage[i].pcie_generation # None /\ storage[i].pcie_lanes # None)

----------------------------------------------------------------------------
(* C18: the run leaves the system as it found it *)

\* C18: a detection run changes no persistent state of the system other than
\* its report file: whatever tools and Python packages are missing, the
\* installed system tools and the installed Python packages are, at every
\* step, the ones the run started with
NoSystemChange ==
    /\ installed = MachineTools(host.base, host.fault)
    /\ site_packages = host.python_packages

----------------------------------------------------------------------------
(* C17: determinism *)

\* what the run itself obtained from the operation op
FirstResult(op) ==
    CASE op = "detect_virtualization" -> virt
      [] op = "calculate_optimization_score" -> <<score, recommended, improvement>>
      [] op = "generate_compilation_flags" -> comp_flags

----------------------------------------------------------------------------
(* C19: a tool that never returns *)

\* C19: when one external tool of a probe (which, lscpu, sudo, dmidecode,
\* nvidia-smi, lspci, rocm-smi, modinfo) blocks and never returns, the run
\* still terminates with a full report: eventually main has returned 0 and the
\* report file holds the full report
BlockedProbeStillReports ==
    <>(pc = "done" /\ exit_code = 0 /\ IsFullReport(output_file))

----------------------------------------------------------------------------
(* C20: backups before writes *)

\* C20: in SystemOptimizer.run, every file that existed before the run and
\* that a step has written (the GRUB defaults file, the sysctl drop-in, the
\* systemd unit, the udev rules file) is in the backup directory with its
\* pre-run content
BackupBeforeWrite ==
    \A f \in ManagedFiles :
        (pc \in {"optimize_grub", "optimize_sysctl", "optimize_cpu_governor",
                 "optimize_io_scheduler", "install_packages", "returned"}
         /\ files[f].written /\ host.files[f].exists)
            => /\ backups[f].exists
               /\ backups[f].content = host.files[f].content

----------------------------------------------------------------------------
(* C21: the compilation plan *)

\* the number of places of token t in toks
Occurrences(t, toks) == Cardinality({i \in DOMAIN toks : toks[i] = t})

\* C21: the plan of generate_compilation_flags: -O3 iff AVX-512F or AVX2,
\* else -O2; the architecture flags are the AVX-512F list, else the AVX2
\* list, else -mtune=generic; the feature flags hold -maes iff AES-NI, -mbmi
\* and -mbmi2 iff BMI2, -msha iff SHA-NI, always the five unconditional
\* flags, -flto iff cores >= 4, each once and nothing else; the link flags
\* are -flto iff cores >= 4
PlanRules ==
    pc = "report" =>
        LET ff == comp_flags.feature_flags
        IN  /\ comp_flags.base_optimization =
                  (IF cpu.has_avx512f \/ cpu.has_avx2 THEN "-O3" ELSE "-O2")
            /\ comp_flags.architecture_flags =
                  (IF cpu.has_avx512f
                   THEN <<"-march=native", "-mtune=native", "-mavx512f", "-mavx512dq",
                          "-mfma">>
                   ELSE IF cpu.has_avx2
                   THEN <<"-march=native", "-mtune=native", "-mavx2", "-mfma">>
                   ELSE <<"-mtune=generic">>)
            /\ InList("-maes", ff) <=> cpu.has_aes_ni
            /\ InList("-mbmi", ff) <=> cpu.has_bmi2
            /\ InList("-mbmi2", ff) <=> cpu.has_bmi2
            /\ InList("-msha", ff) <=> cpu.has_sha_ni
            /\ \A t \in UnconditionalTokens : InList(t, ff)
            /\ InList("-flto", ff) <=> cpu.cores >= 4
            /\ \A i \in DOMAIN ff :
                  /\ ff[i] \in ConditionalTokens \cup UnconditionalTokens \cup {"-flto"}
                  /\ Occurrences(ff[i], ff) = 1
            /\ comp_flags.link_flags = (IF cpu.cores >= 4 THEN <<"-flto">> ELSE <<>>)

\* the plan of a 4-core CPU with AVX-512F, AVX2, AES-NI, BMI2 and SHA-NI
PlanRulesWitness ==
    /\ pc = "report"
    /\ cpu.cores = 4
    /\ cpu.has_avx512f /\ cpu.has_avx2 /\ cpu.has_aes_ni /\ cpu.has_bmi2 /\ cpu.has_sha_ni
    /\ Len(comp_flags.feature_flags) = 10

----------------------------------------------------------------------------
(* C22: the bandwidth table *)

\* MB/s per lane of a generation, 0 for a generation outside the table
PerLane(gen) == CASE gen = 3 -> 985 [] gen = 4 -> 1969 [] gen = 5 -> 3938 [] OTHER -> 0

\* C22: for every device detect_storage returns, when generation and lane
\* count are both defined max_bandwidth_mbps is PerLane[generation] x lanes
\* (0 for a generation outside the table, 7876 for generation 4 with 4
\* lanes), and with an undefined generation there is no bandwidth value
BandwidthTable ==
    StorageDetected =>
        \A i \in DOMAIN storage :
            LET d == storage[i]
            IN  /\ (d.pcie_generation # None /\ d.pcie_lanes # None) =>
                      d.max_bandwidth_mbps = PerLane(d.pcie_generation) * d.pcie_lanes
                /\ (d.pcie_generation = 4 /\ d.pcie_lanes = 4) => d.max_bandwidth_mbps = 7876
                /\ d.pcie_generation = None => d.max_bandwidth_mbps = None

----------------------------------------------------------------------------
(* C23: PCIe link decoding *)

\* the text begins with the tokens of pat
begins_with(pat, text) == Len(text) >= Len(pat) /\ SubSeq(text, 1, Len(pat)) = pat

\* the generation the link-speed text stands for
ClaimedGeneration(speed) ==
    IF begins_with(<<"8", ".", "0">> \o GTs, speed) THEN 3
    ELSE IF begins_with(<<"1", "6", ".", "0">> \o GTs, speed) THEN 4
    ELSE IF begins_with(<<"3", "2", ".", "0">> \o GTs, speed) THEN 5
    ELSE IF begins_with(<<"5", ".", "0">> \o GTs, speed) THEN 2
    ELSE None

\* C23: the link of every NVMe device is decoded as claimed: 8.0 GT/s is
\* generation 3, 16.0 GT/s is 4, 32.0 GT/s is 5, 5.0 GT/s is 2 and no other
\* speed is one of these; the lane count is the digits after 'x'; an absent
\* speed or width attribute leaves its field None
LinkDecoding ==
    StorageDetected =>
        \A i \in DOMAIN storage :
            LET dev == host.nvme[i]
                d   == storage[i]
            IN  /\ (dev.speed.state = "ok" /\ dev.width.state # "unreadable") =>
                      d.pcie_generation = ClaimedGeneration(dev.speed.text)
                /\ (dev.width.state = "ok" /\ dev.speed.state # "unreadable") =>
                      d.pcie_lanes = search_x_digits(dev.width.text)
                /\ dev.speed.state = "absent" => d.pcie_generation = None
                /\ dev.width.state = "absent" => d.pcie_lanes = None

----------------------------------------------------------------------------
(* C24: the flags of the first CPU entry *)

\* the token list of the first 'flags' line of the file
FirstFlagsLine(lines) ==
    LET at == {i \in DOMAIN lines : lines[i].key = "flags"}
    IN  IF at = {} THEN <<>>
        ELSE lines[CHOOSE i \in at : \A j \in at : i <= j].value

\* C24: after _parse_cpuinfo has read a readable /proc/cpuinfo with several
\* CPU entries, cpu_flags is the token list of the first 'flags' line,
\* whatever the later lines hold and also when the first list is empty
FirstEntryFlags ==
    (pc \notin {"import", "main"} /\ host.cpuinfo_readable) =>
        cpu_flags = FirstFlagsLine(host.cpuinfo)

----------------------------------------------------------------------------
(* C25: the CPU generation table *)

\* the table, in order: pattern, generation, microarchitecture
GenerationTable ==
    << <<<<"i", "7", "-", "1", "1", "7", "0", "0">>, "11th Gen (Rocket Lake)", "Cypress Cove">>,
       <<<<"i", "9", "-", "1", "1">>, "11th Gen (Rocket Lake)", "Cypress Cove">>,
       <<<<"i", "5", "-", "1", "1">>, "11th Gen (Rocket Lake)", "Cypress Cove">>,
       <<<<"i", "7", "-", "1", "2">>, "12th Gen (Alder Lake)", "Golden Cove + Gracemont">>,
       <<<<"i", "9", "-", "1", "2">>, "12th Gen (Alder Lake)", "Golden Cove + Gracemont">>,
       <<<<"i", "5", "-", "1", "2">>, "12th Gen (Alder Lake)", "Golden Cove + Gracemont">>,
       <<<<"i", "7", "-", "1", "3">>, "13th Gen (Raptor Lake)", "Raptor Cove + Gracemont">>,
       <<<<"i", "9", "-", "1", "3">>, "13th Gen (Raptor Lake)", "Raptor Cove + Gracemont">>,
       <<<<"i", "7", "-", "1", "4">>, "14th Gen (Raptor Lake Refresh)", "Raptor Cove">>,
       <<<<"i", "9", "-", "1", "4">>, "14th Gen (Raptor Lake Refresh)", "Raptor Cove">>,
       <<<<"i", "7", "-", "1", "0">>, "10th Gen (Comet Lake)", "Skylake">>,
       <<<<"i", "9", "-", "1", "0">>, "10th Gen (Comet Lake)", "Skylake">>,
       <<<<"R", "y", "z", "e", "n", " ", "9", " ", "7">>, "Ryzen 7000 series", "Zen 4">>,
       <<<<"R", "y", "z", "e", "n", " ", "9", " ", "5">>, "Ryzen 5000 series", "Zen 3">>,
       <<<<"R", "y", "z", "e", "n", " ", "7", " ", "5">>, "Ryzen 5000 series", "Zen 3">>,
       <<<<"R", "y", "z", "e", "n", " ", "9", " ", "3">>, "Ryzen 3000 series", "Zen 2">>,
       <<<<"R", "y", "z", "e", "n", " ", "7", " ", "3">>, "Ryzen 3000 series", "Zen 2">> >>

\* the pair of the first entry whose pattern occurs in the name
FirstMatch(name) ==
    LET hits == {i \in DOMAIN GenerationTable : contains(GenerationTable[i][1], name)}
    IN  IF hits = {} THEN <<"Unknown", "Unknown">>
        ELSE LET first == CHOOSE i \in hits : \A j \in hits : i <= j
             IN  <<GenerationTable[first][2], GenerationTable[first][3]>>

\* C25: _detect_cpu_generation is a first-match lookup over the ordered
\* table: the result is the pair of the first entry whose pattern occurs in
\* the model name, also when several occur, and (Unknown, Unknown) when
\* none does, the empty name included
GenerationFirstMatch ==
    pc = "generation_detected" =>
        /\ calls[1].result = FirstMatch(host.model_name)
        /\ host.model_name = <<>> => calls[1].result = <<"Unknown", "Unknown">>

\* a name with an AMD pattern in front of an Intel pattern: the Intel entry,
\* earlier in the table, wins
GenerationFirstMatchWitness ==
    /\ pc = "generation_detected"
    /\ contains(<<"R", "y", "z", "e", "n", " ", "9", " ", "7">>, host.model_name)
    /\ contains(<<"i", "9", "-", "1", "2">>, host.model_name)
    /\ calls[1].result = <<"12th Gen (Alder Lake)", "Golden Cove + Gracemont">>

----------------------------------------------------------------------------
(* C26: memory channels *)

MemoryDetected == pc \in {"detect_gpu", "score", "report", "done"}

\* C26: in every MemoryInfo that detect_memory returns, channels is 4
\* exactly when the reported total_gb is >= 32 and 2 otherwise, so that the
\* channel count and the scorer's memory points rest on the same decision
ChannelsFollowTotal ==
    MemoryDetected =>
        /\ memory.channels \in {2, 4}
        /\ memory.channels = 4 <=> memory.total_gb >= 320

----------------------------------------------------------------------------
(* C27: the recommendation shown by the wizard *)

\* C27: after a detection run that succeeded, the recommended mode the
\* wizard shows in display_hardware_summary and in select_optimization_mode
\* is the recommended_mode the scorer computed in that run, and so 'vanilla'
\* whenever the score is below 50
WizardShowsRecommendation ==
    (pc \in {"mode_selected", "exited"} /\ exit_code = 0) =>
        /\ calls[1].result.summary = recommended
        /\ calls[1].result.recommended = recommended
        /\ score < 50 => calls[1].result.recommended = "vanilla"

----------------------------------------------------------------------------
(* C28: the selected kernels *)

\* C28: whenever select_kernels returns instead of exiting, on the
\* questionary path and on the plain-input path and for every choice, the
\* returned list is non-empty and every kernel in it is a 6.16 or 6.17
\* kernel with its headers installed
SelectedKernelsUsable ==
    pc = "kernels_selected" =>
        LET selected == calls[1].result.selected
        IN  /\ selected # <<>>
            /\ \A i \in DOMAIN selected :
                  /\ selected[i].major = 6
                  /\ selected[i].minor \in {16, 17}
                  /\ selected[i].headers_installed

----------------------------------------------------------------------------
(* C29: the features follow the technology *)

\* C29: in every result of detect_virtualization ept_1gb_pages implies
\* ept_supported, and any of ept_supported, vpid_supported, ept_1gb_pages,
\* npt_supported implies enabled; so a CPU with neither vmx nor svm earns 0
\* virtualization points whatever other flags it reports
FeaturesImplyEnabled ==
    VirtDetected =>
        /\ virt.ept_1gb_pages => virt.ept_supported
        /\ (virt.ept_supported \/ virt.vpid_supported \/ virt.ept_1gb_pages
              \/ virt.npt_supported) => virt.enabled
        /\ (~InList("vmx", cpu_flags) /\ ~InList("svm", cpu_flags))
              => /\ virtualization_points(virt) = 0
                 /\ pc \in {"report", "done"}
                       => score = cpu_features_points(cpu) + storage_points(storage)
                                  + memory_points(memory)

\* ept, vpid, pdpe1gb and npt without vmx or svm: no feature is reported
FeaturesImplyEnabledWitness ==
    /\ pc = "done"
    /\ ~InList("vmx", cpu_flags) /\ ~InList("svm", cpu_flags)
    /\ InList("ept", cpu_flags) /\ InList("vpid", cpu_flags)
    /\ InList("pdpe1gb", cpu_flags) /\ InList("npt", cpu_flags)
    /\ virtualization_points(virt) = 0
    /\ score = cpu_features_points(cpu) + storage_points(storage) + memory_points(memory)

----------------------------------------------------------------------------
(* C30: optimize_grub twice *)

\* the parameters of the lines of the file that begin with the key
\* GRUB_CMDLINE_LINUX_DEFAULT=, in the order of the file
RECURSIVE command_line(_)
command_line(lines) ==
    IF lines = <<>> THEN <<>>
    ELSE (IF Head(lines).kind \in {"cmdline", "unquoted"} THEN Head(lines).params
          ELSE <<>>) \o command_line(Tail(lines))

managed(p) == p.eq /\ p.name \in ConflictingPrefixes

\* the parameters managed as one
ManagedGroups ==
    { {"intel_iommu", "amd_iommu"}, {"iommu"}, {"default_hugepagesz"}, {"hugepagesz"},
      {"hugepages"}, {"transparent_hugepage"}, {"mitigations"} }

\* C30: optimize_grub is idempotent on the GRUB defaults file: for the same
\* hardware and any initial content, with or without a command line and
\* with or without earlier managed parameters, the second application
\* leaves the content of the first, each managed parameter occurs once and
\* every unmanaged parameter of the initial file is kept in its order
GrubIdempotent ==
    (pc = "optimize_grub" /\ Len(calls) >= 2) =>
        LET before == host.files[GrubConfig].content
            once   == calls[1].result
            twice  == calls[2].result
        IN  /\ twice = once
            /\ \A g \in ManagedGroups :
                  Len(SelectSeq(command_line(twice),
                                LAMBDA p : p.eq /\ p.name \in g)) = 1
            /\ SelectSeq(command_line(twice), LAMBDA p : ~managed(p))
                  = SelectSeq(command_line(before), LAMBDA p : ~managed(p))

====
